---- MODULE Spec2Model ----
(***************************************************************************)
(* Model of the play-prediction engine of nfl-play-patterns:               *)
(*   - PlaySequenceTrie / TrieNode        (src/src/models/play_trie.py)    *)
(*   - get_situation_group and the composite-key builders                  *)
(*                                   (src/src/models/situation_groups.py)  *)
(*   - SituationGroupedTrie             (src/src/models/grouped_trie.py)   *)
(*                                                                         *)
(* Probabilities are exact rationals [n, d] (the code uses floats; the     *)
(* rounding of float arithmetic is outside this model).  Python's None is  *)
(* modelled by the empty tuple <<>> for an optional scalar (a present      *)
(* value v is <<v>>) and by [given |-> FALSE] for an optional list.        *)
(***************************************************************************)
EXTENDS Integers, Sequences, FiniteSets, TLC

VARIABLES
    trie,        \* a stand-alone PlaySequenceTrie: [nodes, max_depth, total_sequences]
    tret,        \* what the last call on `trie` was given and returned
    tlog         \* how often each non-empty sequence was given to insert_sequence

tvars == <<trie, tret, tlog>>

(***************************************************************************)
(* Bounds of the model.                                                    *)
(***************************************************************************)
MaxSyms == 5         \* symbols given to insert_sequence on one trie, in total
TrieCtx == 3         \* longest context given to PlaySequenceTrie.predict
MaxWideSyms == 12    \* the same as MaxSyms, in the runs with the wide alphabet
MaxCtx == 2          \* longest context given to SituationGroupedTrie.predict
MaxOps == 3          \* plays given to insert_drive plus predict calls, in total
ScenarioOps == 4     \* the same, in the runs of the documented scenario

\* default of parameter k of PlaySequenceTrie.predict / get_next_play_probs
DefaultK == 5

\* play-type codes used with the stand-alone trie
TrieSymbols == {"P", "R"}

\* max_depth values the stand-alone trie is constructed with
TrieDepths == {1, 2, 3}

(***************************************************************************)
(* Helpers on sequences and rationals.                                     *)
(***************************************************************************)
Min2(a, b) == IF a < b THEN a ELSE b

Max2(a, b) == IF a > b THEN a ELSE b

SeqsUpTo(S, n) == UNION {[1..m -> S] : m \in 0..n}

\* Python's xs[-n:] for n >= 1: the last n elements (all of xs when shorter)
LastN(xs, n) == SubSeq(xs, Max2(1, Len(xs) - n + 1), Len(xs))

\* Python's xs[:k] for k >= 0
FirstN(xs, k) == SubSeq(xs, 1, Min2(k, Len(xs)))

RemoveAt(xs, i) == SubSeq(xs, 1, i - 1) \o SubSeq(xs, i + 1, Len(xs))

Rat(n, d) == [n |-> n, d |-> d]

RAdd(a, b) == Rat(a.n * b.d + b.n * a.d, a.d * b.d)

RDiv(a, b) == Rat(a.n * b.d, a.d * b.n)

REq(a, b) == a.n * b.d = b.n * a.d

RPos(a) == (a.n > 0 /\ a.d > 0) \/ (a.n < 0 /\ a.d < 0)

EmptyDict == [x \in {} |-> 0]

\* a defaultdict(int) after d[key] is read: a missing key is added with int()
AfterSubscript(d, key) ==
    IF key \in DOMAIN d THEN d ELSE [x \in DOMAIN d \cup {key} |-> IF x = key THEN 0 ELSE d[x]]

\* d[key] += 1 on a defaultdict(int)
IncDict(d, key) ==
    [x \in DOMAIN d \cup {key} |->
        IF x = key THEN (IF key \in DOMAIN d THEN d[key] ELSE 0) + 1 ELSE d[x]]

\* d.get(key, 0)
GetOr0(d, key) == IF key \in DOMAIN d THEN d[key] ELSE 0

RECURSIVE SumDict(_)
SumDict(d) ==
    IF DOMAIN d = {} THEN 0
    ELSE LET x == CHOOSE y \in DOMAIN d : TRUE
         IN d[x] + SumDict([y \in DOMAIN d \ {x} |-> d[y]])

NoList == [given |-> FALSE, list |-> <<>>]

SomeList(xs) == [given |-> TRUE, list |-> xs]

(***************************************************************************)
(* TrieNode                                                                *)
(***************************************************************************)
\* TrieNode.__init__; next_play_counts is a dict: its insertion order is kept
\* as the order of a sequence of [play, count] entries
NewNode == [total_visits |-> 0, next_play_counts |-> <<>>,
            epa_sum |-> 0, epa_count |-> 0]

\* next_play_counts[play] += 1 on a defaultdict(int)
BumpCount(counts, play) ==
    IF \E j \in 1..Len(counts) : counts[j].play = play
    THEN [j \in 1..Len(counts) |->
             IF counts[j].play = play
             THEN [counts[j] EXCEPT !.count = @ + 1] ELSE counts[j]]
    ELSE Append(counts, [play |-> play, count |-> 1])

CountOf(counts, play) ==
    IF \E j \in 1..Len(counts) : counts[j].play = play
    THEN (CHOOSE e \in {counts[j] : j \in 1..Len(counts)} : e.play = play).count
    ELSE 0

\* a descending sort that puts the entry recorded last first among equal counts
RECURSIVE SortedDescTiesReversed(_)
SortedDescTiesReversed(items) ==
    IF items = <<>> THEN <<>>
    ELSE LET m == CHOOSE c \in {items[j].count : j \in 1..Len(items)} :
                      \A j \in 1..Len(items) : items[j].count <= c
             i == CHOOSE j \in 1..Len(items) :
                      /\ items[j].count = m
                      /\ \A h \in (j + 1)..Len(items) : items[h].count # m
         IN <<items[i]>> \o SortedDescTiesReversed(RemoveAt(items, i))

\* sorted(items, key=count, reverse=True): stable, equal counts keep their order
RECURSIVE SortedDesc(_)
SortedDesc(items) ==
    IF items = <<>> THEN <<>>
    ELSE LET m == CHOOSE c \in {items[j].count : j \in 1..Len(items)} :
                      \A j \in 1..Len(items) : items[j].count <= c
             i == CHOOSE j \in 1..Len(items) :
                      /\ items[j].count = m
                      /\ \A h \in 1..(j - 1) : items[h].count # m
         IN <<items[i]>> \o SortedDesc(RemoveAt(items, i))

\* get_next_play_probs cutting the sorted list one entry early
GetNextPlayProbsShort(node, k) ==
    IF node.total_visits = 0 THEN <<>>
    ELSE LET sorted_plays == FirstN(SortedDesc(node.next_play_counts), k - 1)
         IN [j \in 1..Len(sorted_plays) |->
                [play |-> sorted_plays[j].play,
                 prob |-> Rat(sorted_plays[j].count, node.total_visits)]]

\* TrieNode.get_next_play_probs: an ordered dict, as a sequence of [play, prob]
GetNextPlayProbs(node, k) ==
    IF node.total_visits = 0 THEN <<>>
    ELSE LET sorted_plays == FirstN(SortedDesc(node.next_play_counts), k)
         IN [j \in 1..Len(sorted_plays) |->
                [play |-> sorted_plays[j].play,
                 prob |-> Rat(sorted_plays[j].count, node.total_visits)]]

(***************************************************************************)
(* PlaySequenceTrie.  The tree is a function from the path of a node (the  *)
(* symbols on the child links from the root) to the node; node p has a     *)
(* child under s exactly when Append(p, s) is in the domain.               *)
(***************************************************************************)
NewTrie(max_depth) ==
    [nodes |-> (<<>> :> NewNode), max_depth |-> max_depth, total_sequences |-> 0]

SetNode(nodes, p, n) ==
    [q \in DOMAIN nodes \cup {p} |-> IF q = p THEN n ELSE nodes[q]]

\* the inner loop recording a next symbol only while it lies inside the walk
RECURSIVE WalkInsertInside(_, _, _, _, _, _)
WalkInsertInside(nodes, path, play_types, epas, i, last) ==
    IF i > last THEN nodes
    ELSE LET p == Append(path, play_types[i])
             n0 == IF p \in DOMAIN nodes THEN nodes[p] ELSE NewNode
             n1 == [n0 EXCEPT !.total_visits = @ + 1]
             n3 == IF i + 1 <= last
                   THEN [n1 EXCEPT !.next_play_counts =
                                       BumpCount(@, play_types[i + 1])]
                   ELSE n1
         IN WalkInsertInside(SetNode(nodes, p, n3), p, play_types, epas, i + 1, last)

\* body of the inner loop of insert_sequence, for i, i+1, ..., last (1-based)
RECURSIVE WalkInsert(_, _, _, _, _, _)
WalkInsert(nodes, path, play_types, epas, i, last) ==
    IF i > last THEN nodes
    ELSE LET p == Append(path, play_types[i])
             n0 == IF p \in DOMAIN nodes THEN nodes[p] ELSE NewNode
             n1 == [n0 EXCEPT !.total_visits = @ + 1]
             n2 == IF epas.given /\ epas.list # <<>> /\ i <= Len(epas.list)
                   THEN [n1 EXCEPT !.epa_sum = @ + epas.list[i],
                                   !.epa_count = @ + 1]
                   ELSE n1
             n3 == IF i + 1 <= Len(play_types)
                   THEN [n2 EXCEPT !.next_play_counts =
                                       BumpCount(@, play_types[i + 1])]
                   ELSE n2
         IN WalkInsert(SetNode(nodes, p, n3), p, play_types, epas, i + 1, last)

\* the outer loop of insert_sequence walking one symbol beyond max_depth
RECURSIVE InsertFromOneDeeper(_, _, _, _, _)
InsertFromOneDeeper(nodes, max_depth, play_types, epas, start_idx) ==
    IF start_idx > Len(play_types) THEN nodes
    ELSE InsertFromOneDeeper(
           WalkInsert(nodes, <<>>, play_types, epas, start_idx,
                      Min2(start_idx + max_depth, Len(play_types))),
           max_depth, play_types, epas, start_idx + 1)

\* the outer loop of insert_sequence over start_idx
RECURSIVE InsertFrom(_, _, _, _, _)
InsertFrom(nodes, max_depth, play_types, epas, start_idx) ==
    IF start_idx > Len(play_types) THEN nodes
    ELSE InsertFrom(
           WalkInsert(nodes, <<>>, play_types, epas, start_idx,
                      Min2(start_idx + max_depth - 1, Len(play_types))),
           max_depth, play_types, epas, start_idx + 1)

\* insert_sequence counting a visit of the root and the first symbol as its
\* next symbol
InsertSequenceCountingRoot(t, play_types, epas) ==
    IF Len(play_types) = 0 THEN t
    ELSE LET nodes == InsertFrom(t.nodes, t.max_depth, play_types, epas, 1)
             root == [nodes[<<>>] EXCEPT !.total_visits = @ + 1,
                                         !.next_play_counts =
                                             BumpCount(@, play_types[1])]
         IN [t EXCEPT !.nodes = SetNode(nodes, <<>>, root),
                      !.total_sequences = @ + 1]

\* PlaySequenceTrie.insert_sequence, as a function of the trie
InsertSequence(t, play_types, epas) ==
    IF Len(play_types) = 0 THEN t
    ELSE [t EXCEPT !.nodes = InsertFrom(t.nodes, t.max_depth, play_types, epas, 1),
                   !.total_sequences = @ + 1]

\* the walk of predict: the path of the node reached
RECURSIVE WalkMatch(_, _, _, _)
WalkMatch(nodes, window, path, i) ==
    IF i > Len(window) THEN path
    ELSE IF Append(path, window[i]) \in DOMAIN nodes
         THEN WalkMatch(nodes, window, Append(path, window[i]), i + 1)
         ELSE path

\* predict dropping the oldest symbols until the rest is a stored path
RECURSIVE DropUntilStored(_, _)
DropUntilStored(nodes, window) ==
    IF window \in DOMAIN nodes THEN window ELSE DropUntilStored(nodes, Tail(window))

TriePredictSuffix(t, recent_plays, k) ==
    LET path == DropUntilStored(t.nodes, LastN(recent_plays, t.max_depth))
    IN [predictions |-> GetNextPlayProbs(t.nodes[path], k),
        depth_matched |-> Len(path)]

\* predict walking the whole context from its oldest symbol
TriePredictWholeContext(t, recent_plays, k) ==
    LET path == WalkMatch(t.nodes, recent_plays, <<>>, 1)
    IN [predictions |-> GetNextPlayProbs(t.nodes[path], k),
        depth_matched |-> Len(path)]

\* PlaySequenceTrie.predict: [predictions, depth_matched]
TriePredict(t, recent_plays, k) ==
    LET path == WalkMatch(t.nodes, LastN(recent_plays, t.max_depth), <<>>, 1)
    IN [predictions |-> GetNextPlayProbs(t.nodes[path], k),
        depth_matched |-> Len(path)]

(***************************************************************************)
(* Situation classification (situation_groups.py).  A SituationGroup enum  *)
(* member is modelled by its value; a bucket key is a tuple: <<base>> for  *)
(* the enum member and <<base, c1, ...>> for the string                    *)
(* "base_c1_..." (the labels never contain a bucket value followed by "_", *)
(* so the formatted string determines the tuple).                          *)
(***************************************************************************)
SituationGroup ==
    {"early_down_short", "early_down_medium", "early_down_long",
     "third_short", "third_medium", "third_long", "fourth_down",
     "red_zone", "goal_line", "other"}

\* get_situation_group looking at the down before the field position
get_situation_group_down_first(down, ydstogo, yardline_100) ==
    IF down = 4 THEN "fourth_down"
    ELSE IF down = 3 THEN
        (IF ydstogo <= 3 THEN "third_short"
         ELSE IF ydstogo <= 7 THEN "third_medium" ELSE "third_long")
    ELSE IF yardline_100 <= 5 THEN "goal_line"
    ELSE IF yardline_100 <= 20 THEN "red_zone"
    ELSE IF down \in {1, 2} THEN
        (IF ydstogo <= 3 THEN "early_down_short"
         ELSE IF ydstogo <= 7 THEN "early_down_medium" ELSE "early_down_long")
    ELSE "other"

get_situation_group_fourth(down, ydstogo, yardline_100) ==
    IF yardline_100 <= 5 THEN "goal_line"
    ELSE IF yardline_100 <= 20 THEN "red_zone"
    ELSE IF down >= 4 THEN "fourth_down"
    ELSE IF down = 3 THEN
        (IF ydstogo <= 3 THEN "third_short"
         ELSE IF ydstogo <= 7 THEN "third_medium" ELSE "third_long")
    ELSE IF down \in {1, 2} THEN
        (IF ydstogo <= 3 THEN "early_down_short"
         ELSE IF ydstogo <= 7 THEN "early_down_medium" ELSE "early_down_long")
    ELSE "other"

\* get_situation_group: the value of the SituationGroup member
get_situation_group(down, ydstogo, yardline_100) ==
    IF yardline_100 <= 5 THEN "goal_line"
    ELSE IF yardline_100 <= 20 THEN "red_zone"
    ELSE IF down = 4 THEN "fourth_down"
    ELSE IF down = 3 THEN
        (IF ydstogo <= 3 THEN "third_short"
         ELSE IF ydstogo <= 7 THEN "third_medium" ELSE "third_long")
    ELSE IF down \in {1, 2} THEN
        (IF ydstogo <= 3 THEN "early_down_short"
         ELSE IF ydstogo <= 7 THEN "early_down_medium" ELSE "early_down_long")
    ELSE "other"

BaseOf(situation) == get_situation_group(situation[1], situation[2], situation[3])

get_score_context(score_differential) ==
    IF score_differential <= -7 THEN "trailing"
    ELSE IF score_differential >= 7 THEN "leading" ELSE "tied"

\* pass rates are percentages here: 0.60 is 60, 0.45 is 45
get_team_identity_context(pass_rate) ==
    IF pass_rate >= 60 THEN "pass_heavy"
    ELSE IF pass_rate <= 45 THEN "run_heavy" ELSE "balanced"

get_time_context(game_seconds_remaining) ==
    IF game_seconds_remaining <= 120 THEN "two_minute" ELSE "normal"

\* str.lower() on the labels used here
get_home_away_context(posteam_type) ==
    CASE posteam_type = "HOME" -> "home"
      [] posteam_type = "AWAY" -> "away"
      [] OTHER -> posteam_type

\* The composite-key builders.  Each takes optional scalars (<<>> is None) and
\* yields [raised, key]: comparing None with a number raises TypeError, and
\* None.lower() raises AttributeError.
Ok(key) == [raised |-> "", key |-> key]

Raised(e) == [raised |-> e, key |-> <<>>]

get_score_aware_situation(situation, score_diff) ==
    IF score_diff = <<>> THEN Raised("TypeError")
    ELSE Ok(<<BaseOf(situation), get_score_context(score_diff[1])>>)

get_team_identity_situation(situation, team_pass_rate) ==
    IF team_pass_rate = <<>> THEN Raised("TypeError")
    ELSE Ok(<<BaseOf(situation), get_team_identity_context(team_pass_rate[1])>>)

get_combined_situation(situation, score_diff, team_pass_rate) ==
    IF score_diff = <<>> \/ team_pass_rate = <<>> THEN Raised("TypeError")
    ELSE Ok(<<BaseOf(situation), get_score_context(score_diff[1]),
              get_team_identity_context(team_pass_rate[1])>>)

get_phase1_situation(situation, game_seconds_remaining, posteam_type) ==
    IF game_seconds_remaining = <<>> THEN Raised("TypeError")
    ELSE IF posteam_type = <<>> THEN Raised("AttributeError")
    ELSE Ok(<<BaseOf(situation), get_time_context(game_seconds_remaining[1]),
              get_home_away_context(posteam_type[1])>>)

(***************************************************************************)
(* SituationGroupedTrie (grouped_trie.py)                                  *)
(***************************************************************************)
VARIABLES
    max_depth,
    features,                   \* the set of configured feature names
    use_hierarchical_fallback,
    min_examples_threshold,
    tries,                      \* dict: bucket key -> PlaySequenceTrie
    situation_counts,           \* defaultdict(int): bucket key -> insertions
    fallback_stats,             \* defaultdict(int): level name -> predictions
    league_average,             \* dict: code -> probability
    ret,                        \* what the last call was given and returned
    steps,                      \* plays submitted plus predictions made so far
    glog                        \* how often each drive passed insert_drive's checks

gvars == <<max_depth, features, use_hierarchical_fallback, min_examples_threshold,
           tries, situation_counts, fallback_stats, league_average, ret, steps,
           glog>>

VARIABLES
    cls,         \* the last call of get_situation_group: its arguments and result
    ev,          \* a run of CorrectedTrieEvaluator.evaluate_drives: input, position, counters
    rd,          \* the threads calling predict: position and locals of each
    stats        \* the dictionary the last call of get_statistics returned

xvars == <<cls, ev, rd, stats>>

vars == <<tvars, gvars, xvars>>

\* no call of get_situation_group made yet
NoCls == [op |-> "none", down |-> 0, ydstogo |-> 0, yardline_100 |-> 0, group |-> ""]

\* no evaluation started
NoEval == [pc |-> "none"]

\* no thread started
NoReaders == <<>>

\* get_statistics not called yet
NoStats == <<>>

config == <<max_depth, features, use_hierarchical_fallback, min_examples_threshold,
            league_average>>

use_score == "score" \in features

use_team_identity == "team_identity" \in features

use_time_remaining == "time_remaining" \in features

use_home_away == "home_away" \in features

\* the bucket key insert_drive computes for index i (lines 133-160)
InsertGroup(feats, situations, score_diffs, team_pass_rates, game_seconds_remaining, posteam_types, i) ==
    IF "time_remaining" \in feats /\ "home_away" \in feats THEN
        (IF game_seconds_remaining.given /\ posteam_types.given
         THEN get_phase1_situation(situations[i], game_seconds_remaining.list[i],
                                   posteam_types.list[i])
         ELSE Ok(<<BaseOf(situations[i])>>))
    ELSE IF "score" \in feats /\ "team_identity" \in feats THEN
        (IF score_diffs.given /\ team_pass_rates.given
         THEN get_combined_situation(situations[i], score_diffs.list[i],
                                     team_pass_rates.list[i])
         ELSE Ok(<<BaseOf(situations[i])>>))
    ELSE IF "score" \in feats THEN
        (IF score_diffs.given
         THEN get_score_aware_situation(situations[i], score_diffs.list[i])
         ELSE Ok(<<BaseOf(situations[i])>>))
    ELSE IF "team_identity" \in feats THEN
        (IF team_pass_rates.given
         THEN get_team_identity_situation(situations[i], team_pass_rates.list[i])
         ELSE Ok(<<BaseOf(situations[i])>>))
    ELSE Ok(<<BaseOf(situations[i])>>)

\* lines 169-172 without line 173: the insertion is not counted
InsertIntoUncounted(st, depth, key, recent_plays, recent_epas) ==
    LET t0 == IF key \in DOMAIN st.tries THEN st.tries[key] ELSE NewTrie(depth)
        t1 == InsertSequence(t0, recent_plays, recent_epas)
    IN [st EXCEPT !.tries = [k \in DOMAIN st.tries \cup {key} |->
                                IF k = key THEN t1 ELSE st.tries[k]]]

\* lines 169-173 building a new trie for the bucket at every insertion
InsertIntoFresh(st, depth, key, recent_plays, recent_epas) ==
    LET t1 == InsertSequence(NewTrie(depth), recent_plays, recent_epas)
    IN [st EXCEPT !.tries = [k \in DOMAIN st.tries \cup {key} |->
                                IF k = key THEN t1 ELSE st.tries[k]],
                  !.situation_counts = IncDict(st.situation_counts, key)]

\* lines 169-173 (and 177-180): create the bucket's trie on first use, insert
\* the window, count the insertion
InsertInto(st, depth, key, recent_plays, recent_epas) ==
    LET t0 == IF key \in DOMAIN st.tries THEN st.tries[key] ELSE NewTrie(depth)
        t1 == InsertSequence(t0, recent_plays, recent_epas)
    IN [st EXCEPT !.tries = [k \in DOMAIN st.tries \cup {key} |->
                                IF k = key THEN t1 ELSE st.tries[k]],
                  !.situation_counts = IncDict(st.situation_counts, key)]

\* Python's xs[a:b] with 0-based a >= 0 and b >= 0
Slice(xs, a, b) == SubSeq(xs, a + 1, Min2(b, Len(xs)))

\* the loop of insert_drive without lines 175-180: the window goes to the
\* computed bucket only
RECURSIVE InsertLoopNoCanonical(_, _, _, _, _, _, _, _, _, _, _, _)
InsertLoopNoCanonical(st, depth, feats, fallback, play_types, situations, epas, score_diffs, team_pass_rates, game_seconds_remaining, posteam_types, i) ==
    IF i > Len(play_types) THEN st
    ELSE LET g == InsertGroup(feats, situations, score_diffs, team_pass_rates,
                              game_seconds_remaining, posteam_types, i)
             start_idx == Max2(0, (i - 1) - depth)
             recent_plays == Slice(play_types, start_idx, i)
             recent_epas == IF epas.given /\ epas.list # <<>>
                            THEN SomeList(Slice(epas.list, start_idx, i))
                            ELSE NoList
             s1 == InsertInto(st, depth, g.key, recent_plays, recent_epas)
         IN IF g.raised # "" THEN [st EXCEPT !.raised = g.raised]
            ELSE InsertLoopNoCanonical(s1, depth, feats, fallback, play_types,
                                       situations, epas, score_diffs, team_pass_rates,
                                       game_seconds_remaining, posteam_types, i + 1)

\* the loop of insert_drive inserting into the canonical bucket whenever a
\* feature is configured, whatever use_hierarchical_fallback says
RECURSIVE InsertLoopAlwaysCanonical(_, _, _, _, _, _, _, _, _, _, _, _)
InsertLoopAlwaysCanonical(st, depth, feats, fallback, play_types, situations, epas, score_diffs, team_pass_rates, game_seconds_remaining, posteam_types, i) ==
    IF i > Len(play_types) THEN st
    ELSE LET g == InsertGroup(feats, situations, score_diffs, team_pass_rates,
                              game_seconds_remaining, posteam_types, i)
             start_idx == Max2(0, (i - 1) - depth)
             recent_plays == Slice(play_types, start_idx, i)
             recent_epas == IF epas.given /\ epas.list # <<>>
                            THEN SomeList(Slice(epas.list, start_idx, i))
                            ELSE NoList
             s1 == InsertInto(st, depth, g.key, recent_plays, recent_epas)
             s2 == IF feats # {}
                   THEN InsertInto(s1, depth, <<BaseOf(situations[i])>>,
                                   recent_plays, recent_epas)
                   ELSE s1
         IN IF g.raised # "" THEN [st EXCEPT !.raised = g.raised]
            ELSE InsertLoopAlwaysCanonical(s2, depth, feats, fallback, play_types,
                            situations, epas, score_diffs, team_pass_rates,
                            game_seconds_remaining, posteam_types, i + 1)

\* the loop of insert_drive from index i (1-based) on; st is
\* [tries, situation_counts, raised]
RECURSIVE InsertLoop(_, _, _, _, _, _, _, _, _, _, _, _)
InsertLoop(st, depth, feats, fallback, play_types, situations, epas, score_diffs, team_pass_rates, game_seconds_remaining, posteam_types, i) ==
    IF i > Len(play_types) THEN st
    ELSE LET g == InsertGroup(feats, situations, score_diffs, team_pass_rates,
                              game_seconds_remaining, posteam_types, i)
             start_idx == Max2(0, (i - 1) - depth)
             recent_plays == Slice(play_types, start_idx, i)
             recent_epas == IF epas.given /\ epas.list # <<>>
                            THEN SomeList(Slice(epas.list, start_idx, i))
                            ELSE NoList
             s1 == InsertInto(st, depth, g.key, recent_plays, recent_epas)
             s2 == IF feats # {} /\ fallback
                   THEN InsertInto(s1, depth, <<BaseOf(situations[i])>>,
                                   recent_plays, recent_epas)
                   ELSE s1
         IN IF g.raised # "" THEN [st EXCEPT !.raised = g.raised]
            ELSE InsertLoop(s2, depth, feats, fallback, play_types, situations,
                            epas, score_diffs, team_pass_rates,
                            game_seconds_remaining, posteam_types, i + 1)

\* the length checks without the one on posteam_types
LengthErrorNoHome(feats, play_types, situations, score_diffs, team_pass_rates, game_seconds_remaining, posteam_types) ==
    \/ Len(play_types) # Len(situations)
    \/ "score" \in feats /\ score_diffs.given
          /\ Len(score_diffs.list) # Len(situations)
    \/ "team_identity" \in feats /\ team_pass_rates.given
          /\ Len(team_pass_rates.list) # Len(situations)
    \/ "time_remaining" \in feats /\ game_seconds_remaining.given
          /\ Len(game_seconds_remaining.list) # Len(situations)

\* the length checks of insert_drive (lines 115-128)
LengthError(feats, play_types, situations, score_diffs, team_pass_rates, game_seconds_remaining, posteam_types) ==
    \/ Len(play_types) # Len(situations)
    \/ "score" \in feats /\ score_diffs.given
          /\ Len(score_diffs.list) # Len(situations)
    \/ "team_identity" \in feats /\ team_pass_rates.given
          /\ Len(team_pass_rates.list) # Len(situations)
    \/ "time_remaining" \in feats /\ game_seconds_remaining.given
          /\ Len(game_seconds_remaining.list) # Len(situations)
    \/ "home_away" \in feats /\ posteam_types.given
          /\ Len(posteam_types.list) # Len(situations)

\* insert_drive checking the lengths after the loop over the plays
InsertDriveResultLateCheck(st, depth, feats, fallback, play_types, situations, epas, score_diffs, team_pass_rates, game_seconds_remaining, posteam_types) ==
    LET r == InsertLoop(st, depth, feats, fallback, play_types, situations, epas,
                        score_diffs, team_pass_rates, game_seconds_remaining,
                        posteam_types, 1)
    IN IF LengthError(feats, play_types, situations, score_diffs, team_pass_rates,
                      game_seconds_remaining, posteam_types)
       THEN [r EXCEPT !.raised = "ValueError"]
       ELSE r

\* SituationGroupedTrie.insert_drive as a function of the state:
\* [tries, situation_counts, raised]
InsertDriveResult(st, depth, feats, fallback, play_types, situations, epas, score_diffs, team_pass_rates, game_seconds_remaining, posteam_types) ==
    IF LengthError(feats, play_types, situations, score_diffs, team_pass_rates,
                   game_seconds_remaining, posteam_types)
    THEN [st EXCEPT !.raised = "ValueError"]
    ELSE InsertLoop(st, depth, feats, fallback, play_types, situations, epas,
                    score_diffs, team_pass_rates, game_seconds_remaining,
                    posteam_types, 1)

\* _has_sufficient_data with a strict comparison
HasSufficientDataStrict(counts, threshold, situation_group) ==
    GetOr0(counts, situation_group) > threshold

\* SituationGroupedTrie._has_sufficient_data
HasSufficientData(counts, threshold, situation_group) ==
    GetOr0(counts, situation_group) >= threshold

\* SituationGroupedTrie._get_specific_situation_group
GetSpecificSituationGroup(feats, situation, score_diff, team_pass_rate, game_seconds_remaining, posteam_type) ==
    IF "time_remaining" \in feats /\ "home_away" \in feats THEN
        (IF game_seconds_remaining # <<>> /\ posteam_type # <<>>
         THEN get_phase1_situation(situation, game_seconds_remaining,
                                   posteam_type).key
         ELSE <<BaseOf(situation)>>)
    ELSE IF "score" \in feats /\ "team_identity" \in feats THEN
        (IF score_diff # <<>> /\ team_pass_rate # <<>>
         THEN get_combined_situation(situation, score_diff, team_pass_rate).key
         ELSE <<BaseOf(situation)>>)
    ELSE IF "score" \in feats THEN
        (IF score_diff # <<>>
         THEN get_score_aware_situation(situation, score_diff).key
         ELSE <<BaseOf(situation)>>)
    ELSE IF "team_identity" \in feats THEN
        (IF team_pass_rate # <<>>
         THEN get_team_identity_situation(situation, team_pass_rate).key
         ELSE <<BaseOf(situation)>>)
    ELSE <<BaseOf(situation)>>

\* SimplePlayType.code
Code(play_type) == play_type

RECURSIVE SumProbs(_, _)
SumProbs(predictions, code) ==
    IF predictions = <<>> THEN Rat(0, 1)
    ELSE LET rest == SumProbs(Tail(predictions), code)
         IN IF Code(Head(predictions).play) = code
            THEN RAdd(Head(predictions).prob, rest) ELSE rest

RECURSIVE SumValues(_)
SumValues(d) ==
    IF DOMAIN d = {} THEN Rat(0, 1)
    ELSE LET x == CHOOSE y \in DOMAIN d : TRUE
         IN RAdd(d[x], SumValues([y \in DOMAIN d \ {x} |-> d[y]]))

\* _aggregate_predictions without the normalisation
AggregatePredictionsRaw(predictions) ==
    LET codes == {Code(predictions[j].play) : j \in 1..Len(predictions)}
    IN [c \in codes |-> SumProbs(predictions, c)]

\* SituationGroupedTrie._aggregate_predictions: a dict code -> probability
AggregatePredictions(predictions) ==
    LET codes == {Code(predictions[j].play) : j \in 1..Len(predictions)}
        aggregated == [c \in codes |-> SumProbs(predictions, c)]
        total == SumValues(aggregated)
    IN IF RPos(total)
       THEN [c \in codes |-> RDiv(aggregated[c], total)]
       ELSE aggregated

\* k passed to the bucket's trie by SituationGroupedTrie.predict
GroupedK == 10

\* tries[group].predict(recent, k=10) followed by _aggregate_predictions
QueryGroup(trs, group, recent_play_types) ==
    LET r == TriePredict(trs[group], recent_play_types, GroupedK)
    IN [dist |-> AggregatePredictions(r.predictions), depth |-> r.depth_matched]

\* predict counting a consultation of the specific bucket as level 1 when the
\* fallback is disabled
PredictResultLevelWhenDisabled(trs, counts, feats, fallback, threshold, prior, situation, recent_play_types, score_diff, team_pass_rate, game_seconds_remaining, posteam_type) ==
    LET specific_group == GetSpecificSituationGroup(feats, situation, score_diff,
                              team_pass_rate, game_seconds_remaining, posteam_type)
        base_group == <<BaseOf(situation)>>
        try1 == specific_group \in DOMAIN trs
                    /\ HasSufficientData(counts, threshold, specific_group)
        q1 == QueryGroup(trs, specific_group, recent_play_types)
        try2 == base_group \in DOMAIN trs
                    /\ HasSufficientData(counts, threshold, base_group)
        q2 == QueryGroup(trs, base_group, recent_play_types)
    IN IF fallback THEN
          (IF try1 /\ DOMAIN q1.dist # {}
           THEN [dist |-> q1.dist, depth |-> q1.depth, level |-> "level_1_specific"]
           ELSE IF try2 /\ DOMAIN q2.dist # {}
           THEN [dist |-> q2.dist, depth |-> q2.depth, level |-> "level_2_base"]
           ELSE [dist |-> prior, depth |-> 0, level |-> "level_3_league"])
       ELSE
          (IF specific_group \notin DOMAIN trs
           THEN [dist |-> EmptyDict, depth |-> 0, level |-> ""]
           ELSE [dist |-> q1.dist, depth |-> q1.depth, level |-> "level_1_specific"])

\* predict returning what a reliable bucket's trie answers even when that is
\* the empty distribution
PredictResultNoEmptyCheck(trs, counts, feats, fallback, threshold, prior, situation, recent_play_types, score_diff, team_pass_rate, game_seconds_remaining, posteam_type) ==
    LET specific_group == GetSpecificSituationGroup(feats, situation, score_diff,
                              team_pass_rate, game_seconds_remaining, posteam_type)
        base_group == <<BaseOf(situation)>>
        try1 == specific_group \in DOMAIN trs
                    /\ HasSufficientData(counts, threshold, specific_group)
        q1 == QueryGroup(trs, specific_group, recent_play_types)
        try2 == base_group \in DOMAIN trs
                    /\ HasSufficientData(counts, threshold, base_group)
        q2 == QueryGroup(trs, base_group, recent_play_types)
    IN IF fallback THEN
          (IF try1
           THEN [dist |-> q1.dist, depth |-> q1.depth, level |-> "level_1_specific"]
           ELSE IF try2
           THEN [dist |-> q2.dist, depth |-> q2.depth, level |-> "level_2_base"]
           ELSE [dist |-> prior, depth |-> 0, level |-> "level_3_league"])
       ELSE
          (IF specific_group \notin DOMAIN trs
           THEN [dist |-> EmptyDict, depth |-> 0, level |-> ""]
           ELSE [dist |-> q1.dist, depth |-> q1.depth, level |-> ""])

\* predict going from the specific bucket straight to the global prior
PredictResultNoCanonical(trs, counts, feats, fallback, threshold, prior, situation, recent_play_types, score_diff, team_pass_rate, game_seconds_remaining, posteam_type) ==
    LET specific_group == GetSpecificSituationGroup(feats, situation, score_diff,
                              team_pass_rate, game_seconds_remaining, posteam_type)
        try1 == specific_group \in DOMAIN trs
                    /\ HasSufficientData(counts, threshold, specific_group)
        q1 == QueryGroup(trs, specific_group, recent_play_types)
    IN IF fallback THEN
          (IF try1 /\ DOMAIN q1.dist # {}
           THEN [dist |-> q1.dist, depth |-> q1.depth, level |-> "level_1_specific"]
           ELSE [dist |-> prior, depth |-> 0, level |-> "level_3_league"])
       ELSE
          (IF specific_group \notin DOMAIN trs
           THEN [dist |-> EmptyDict, depth |-> 0, level |-> ""]
           ELSE [dist |-> q1.dist, depth |-> q1.depth, level |-> ""])

\* predict falling back to the canonical bucket although fallback is disabled
PredictResultStillFallsBack(trs, counts, feats, fallback, threshold, prior, situation, recent_play_types, score_diff, team_pass_rate, game_seconds_remaining, posteam_type) ==
    LET specific_group == GetSpecificSituationGroup(feats, situation, score_diff,
                              team_pass_rate, game_seconds_remaining, posteam_type)
        base_group == <<BaseOf(situation)>>
        try1 == specific_group \in DOMAIN trs
                    /\ (fallback => HasSufficientData(counts, threshold, specific_group))
        q1 == QueryGroup(trs, specific_group, recent_play_types)
        try2 == base_group \in DOMAIN trs
                    /\ (fallback => HasSufficientData(counts, threshold, base_group))
        q2 == QueryGroup(trs, base_group, recent_play_types)
    IN IF try1 /\ (fallback => DOMAIN q1.dist # {})
       THEN [dist |-> q1.dist, depth |-> q1.depth,
             level |-> IF fallback THEN "level_1_specific" ELSE ""]
       ELSE IF try2 /\ DOMAIN q2.dist # {}
       THEN [dist |-> q2.dist, depth |-> q2.depth,
             level |-> IF fallback THEN "level_2_base" ELSE ""]
       ELSE IF fallback
       THEN [dist |-> prior, depth |-> 0, level |-> "level_3_league"]
       ELSE [dist |-> EmptyDict, depth |-> 0, level |-> ""]

\* SituationGroupedTrie.predict as a function of the state:
\* [dist, depth, level]; level is the fallback_stats key incremented ("" if none)
PredictResult(trs, counts, feats, fallback, threshold, prior, situation, recent_play_types, score_diff, team_pass_rate, game_seconds_remaining, posteam_type) ==
    LET specific_group == GetSpecificSituationGroup(feats, situation, score_diff,
                              team_pass_rate, game_seconds_remaining, posteam_type)
        base_group == <<BaseOf(situation)>>
        try1 == specific_group \in DOMAIN trs
                    /\ HasSufficientData(counts, threshold, specific_group)
        q1 == QueryGroup(trs, specific_group, recent_play_types)
        try2 == base_group \in DOMAIN trs
                    /\ HasSufficientData(counts, threshold, base_group)
        q2 == QueryGroup(trs, base_group, recent_play_types)
    IN IF fallback THEN
          (IF try1 /\ DOMAIN q1.dist # {}
           THEN [dist |-> q1.dist, depth |-> q1.depth, level |-> "level_1_specific"]
           ELSE IF try2 /\ DOMAIN q2.dist # {}
           THEN [dist |-> q2.dist, depth |-> q2.depth, level |-> "level_2_base"]
           ELSE [dist |-> prior, depth |-> 0, level |-> "level_3_league"])
       ELSE
          (IF specific_group \notin DOMAIN trs
           THEN [dist |-> EmptyDict, depth |-> 0, level |-> ""]
           ELSE [dist |-> q1.dist, depth |-> q1.depth, level |-> ""])

(***************************************************************************)
(* Calls on the stand-alone trie.  A call leaves its arguments and its     *)
(* result in tret; the caller takes them (TrieProceed) before its next     *)
(* call.                                                                   *)
(***************************************************************************)
TIdle == [op |-> "none", play_types |-> <<>>, k |-> 0,
          predictions |-> <<>>, depth_matched |-> 0]

\* SituationGroupedTrie.__init__ (the registry is pre-filled with one trie per
\* enum member when no feature is configured)
NewTries(depth, feats) ==
    IF feats = {} THEN [g \in {<<b>> : b \in SituationGroup} |-> NewTrie(depth)]
    ELSE EmptyDict

LeagueAverage == ("P" :> Rat(58, 100)) @@ ("R" :> Rat(42, 100))

Idle == [op |-> "none", raised |-> "", args |-> <<>>, dist |-> EmptyDict, depth |-> 0,
         level |-> ""]

Construct(depth, feats, fallback, threshold) ==
    /\ max_depth = depth
    /\ features = feats
    /\ use_hierarchical_fallback = fallback
    /\ min_examples_threshold = threshold
    /\ tries = NewTries(depth, feats)
    /\ situation_counts = EmptyDict
    /\ fallback_stats = EmptyDict
    /\ league_average = LeagueAverage
    /\ ret = Idle
    /\ steps = 0
    /\ glog = EmptyDict

\* defaults of SituationGroupedTrie.__init__
DefaultDepth == 8

DefaultThreshold == 50

TrieInit ==
    /\ \E d \in TrieDepths : trie = NewTrie(d)
    /\ tret = TIdle
    /\ tlog = EmptyDict
    /\ cls = NoCls /\ ev = NoEval /\ rd = NoReaders /\ stats = NoStats
    /\ Construct(DefaultDepth, {}, TRUE, DefaultThreshold)

\* symbols given to insert_sequence so far: each one starts a walk at the root
SymbolsInserted ==
    LET tops == {p \in DOMAIN trie.nodes : Len(p) = 1}
    IN SumDict([p \in tops |-> trie.nodes[p].total_visits])

DoInsertSequence(bound, play_types, epas) ==
    /\ tret.op = "none"
    /\ SymbolsInserted + Len(play_types) <= bound
    /\ trie' = InsertSequence(trie, play_types, epas)
    /\ tret' = [TIdle EXCEPT !.op = "insert_sequence", !.play_types = play_types]
    /\ tlog' = IF Len(play_types) = 0 THEN tlog ELSE IncDict(tlog, play_types)
    /\ UNCHANGED <<gvars, xvars>>

DoTriePredict(recent_plays, k) ==
    /\ tret.op = "none"
    /\ LET r == TriePredict(trie, recent_plays, k)
       IN tret' = [op |-> "predict", play_types |-> recent_plays, k |-> k,
                   predictions |-> r.predictions,
                   depth_matched |-> r.depth_matched]
    /\ UNCHANGED <<trie, tlog>>
    /\ UNCHANGED <<gvars, xvars>>

TrieProceed ==
    /\ tret.op # "none"
    /\ tret' = TIdle
    /\ UNCHANGED <<trie, tlog>>
    /\ UNCHANGED <<gvars, xvars>>

TrieNext ==
    \/ /\ tret.op = "none"
       /\ \E s \in SeqsUpTo(TrieSymbols, MaxSyms - SymbolsInserted) :
             DoInsertSequence(MaxSyms, s, NoList)
    \/ /\ tret.op = "none"
       /\ \E c \in SeqsUpTo(TrieSymbols, TrieCtx) : DoTriePredict(c, DefaultK)
    \/ TrieProceed

SpecTrie == TrieInit /\ [][TrieNext]_vars

\* a wider alphabet, as the 48 codes of PlayClassifier give: more distinct
\* symbols than the default k of predict
WideSymbols == {"A", "B", "C", "D", "E", "F"}

WideSeqs == {<<"A", x>> : x \in WideSymbols} \cup {<<"A", "A", "B">>, <<"B", "A", "A">>}

WideDepths == {1, 2}

WideInit ==
    /\ \E d \in WideDepths : trie = NewTrie(d)
    /\ tret = TIdle
    /\ tlog = EmptyDict
    /\ cls = NoCls /\ ev = NoEval /\ rd = NoReaders /\ stats = NoStats
    /\ Construct(DefaultDepth, {}, TRUE, DefaultThreshold)

WideNext ==
    \/ /\ tret.op = "none"
       /\ \E s \in WideSeqs : DoInsertSequence(MaxWideSyms, s, NoList)
    \/ /\ tret.op = "none"
       /\ \E c \in {<<>>, <<"A">>, <<"B", "A">>} : DoTriePredict(c, DefaultK)
    \/ TrieProceed

SpecWide == WideInit /\ [][WideNext]_vars

(***************************************************************************)
(* Top-k selection (test_top_k_predictions): three symbols, and k below,   *)
(* at and above the number of distinct next symbols.                       *)
(***************************************************************************)
TopKSyms == 4        \* symbols given to insert_sequence in the runs with several k

TopKSymbols == {"A", "B", "C"}

\* values of parameter k of predict
TopKValues == {1, 2, DefaultK}

TopKDepths == {1, 2}

TopKInit ==
    /\ \E d \in TopKDepths : trie = NewTrie(d)
    /\ tret = TIdle
    /\ tlog = EmptyDict
    /\ cls = NoCls /\ ev = NoEval /\ rd = NoReaders /\ stats = NoStats
    /\ Construct(DefaultDepth, {}, TRUE, DefaultThreshold)

TopKNext ==
    \/ /\ tret.op = "none"
       /\ \E s \in SeqsUpTo(TopKSymbols, TopKSyms - SymbolsInserted) :
             DoInsertSequence(TopKSyms, s, NoList)
    \/ /\ tret.op = "none"
       /\ \E c \in SeqsUpTo(TopKSymbols, 1), k \in TopKValues : DoTriePredict(c, k)
    \/ TrieProceed

SpecTopK == TopKInit /\ [][TopKNext]_vars

(***************************************************************************)
(* Calls on the SituationGroupedTrie                                       *)
(***************************************************************************)
State == [tries |-> tries, situation_counts |-> situation_counts, raised |-> ""]

DoInsertDrive(bound, play_types, situations, epas, score_diffs, team_pass_rates, game_seconds_remaining, posteam_types) ==
    /\ ret.op = "none"
    /\ steps + Len(play_types) <= bound
    /\ LET r == InsertDriveResult(State, max_depth, features,
                    use_hierarchical_fallback, play_types, situations, epas,
                    score_diffs, team_pass_rates, game_seconds_remaining,
                    posteam_types)
       IN /\ tries' = r.tries
          /\ situation_counts' = r.situation_counts
          /\ ret' = [Idle EXCEPT !.op = "insert_drive", !.raised = r.raised,
                        !.args = [play_types |-> play_types,
                                  situations |-> situations, epas |-> epas,
                                  score_diffs |-> score_diffs,
                                  team_pass_rates |-> team_pass_rates,
                                  game_seconds_remaining |-> game_seconds_remaining,
                                  posteam_types |-> posteam_types]]
          /\ steps' = IF r.raised = "ValueError" THEN steps
                      ELSE steps + Len(play_types)
          /\ glog' = IF r.raised = "ValueError" \/ Len(play_types) = 0 THEN glog
                     ELSE IncDict(glog, [play_types |-> play_types,
                                         situations |-> situations,
                                         raised |-> r.raised])
    /\ UNCHANGED <<config, fallback_stats>>
    /\ UNCHANGED <<tvars, xvars>>

\* the count map after situation_counts[situation_group], a subscript on a
\* defaultdict(int): a missing key is added with 0
CountsAfterSubscript(counts, situation_group) ==
    IF situation_group \in DOMAIN counts THEN counts
    ELSE [x \in DOMAIN counts \cup {situation_group} |->
             IF x = situation_group THEN 0 ELSE counts[x]]

\* the count map after the read of _has_sufficient_data (line 192):
\* situation_counts.get(situation_group, 0) adds no key
CountsAfterGet(counts, situation_group) ==
    counts

\* registry and count map after the reads of predict (lines 239-263): the
\* registry is tested with "in" and read at keys it has; the count map is read
\* by _has_sufficient_data for each bucket found in the registry, the canonical
\* one only when the specific one gave no output
StateAfterPredict(st, feats, fallback, level, situation, score_diff, team_pass_rate, game_seconds_remaining, posteam_type) ==
    LET specific_group == GetSpecificSituationGroup(feats, situation, score_diff,
                              team_pass_rate, game_seconds_remaining, posteam_type)
        base_group == <<BaseOf(situation)>>
        c1 == IF specific_group \in DOMAIN st.tries
              THEN CountsAfterGet(st.situation_counts, specific_group)
              ELSE st.situation_counts
        c2 == IF level # "level_1_specific" /\ base_group \in DOMAIN st.tries
              THEN CountsAfterGet(c1, base_group) ELSE c1
    IN IF fallback THEN [st EXCEPT !.situation_counts = c2] ELSE st

DoPredict(bound, situation, recent_play_types, score_diff, team_pass_rate, game_seconds_remaining, posteam_type) ==
    /\ ret.op = "none"
    /\ steps < bound
    /\ LET r == PredictResult(tries, situation_counts, features,
                    use_hierarchical_fallback, min_examples_threshold,
                    league_average, situation, recent_play_types, score_diff,
                    team_pass_rate, game_seconds_remaining, posteam_type)
           s == StateAfterPredict(State, features, use_hierarchical_fallback,
                    r.level, situation, score_diff, team_pass_rate,
                    game_seconds_remaining, posteam_type)
       IN /\ tries' = s.tries
          /\ situation_counts' = s.situation_counts
          /\ fallback_stats' = IF r.level = "" THEN fallback_stats
                               ELSE IncDict(fallback_stats, r.level)
          /\ ret' = [op |-> "predict", raised |-> "",
                     args |-> [situation |-> situation,
                               recent_play_types |-> recent_play_types,
                               score_diff |-> score_diff,
                               team_pass_rate |-> team_pass_rate,
                               game_seconds_remaining |-> game_seconds_remaining,
                               posteam_type |-> posteam_type],
                     dist |-> r.dist, depth |-> r.depth, level |-> r.level]
    /\ steps' = steps + 1
    /\ UNCHANGED <<config, glog>>
    /\ UNCHANGED <<tvars, xvars>>

Proceed ==
    /\ ret.op # "none"
    /\ ret' = Idle
    /\ UNCHANGED <<config, tries, situation_counts, fallback_stats, steps, glog>>
    /\ UNCHANGED <<tvars, xvars>>

(***************************************************************************)
(* The arguments the calls are made with.                                  *)
(***************************************************************************)
\* SimplePlayType codes of the plays
Symbols == {"P", "R"}

\* constructor arguments [max_depth, features, fallback, threshold]
Cfg(d, f, h, t) == [max_depth |-> d, features |-> f, fallback |-> h, threshold |-> t]

Configs ==
    {Cfg(5, {}, TRUE, DefaultThreshold),
     Cfg(1, {}, TRUE, 2),
     Cfg(2, {}, FALSE, DefaultThreshold),
     Cfg(2, {"score"}, TRUE, 2),
     Cfg(2, {"score"}, FALSE, 2),
     Cfg(2, {"score", "team_identity"}, TRUE, 1),
     Cfg(2, {"time_remaining", "home_away"}, TRUE, 2),
     Cfg(2, {"time_remaining"}, TRUE, 1)}

\* (down, ydstogo, yardline_100) of a play; without features two buckets are used
\* (the second through a down outside 1..4), with features one
SituationsFor(feats) ==
    IF feats = {} THEN {<<3, 2, 65>>, <<5, 2, 65>>} ELSE {<<3, 2, 65>>}

\* auxiliary values of a play given to insert_drive (<<>> is a missing value)
ScoreValues(feats) ==
    IF feats = {"score"} THEN {<<-7>>, <<0>>}
    ELSE IF "score" \in feats THEN {<<-7>>, <<>>} ELSE {<<0>>}

TeamValues(feats) == IF "team_identity" \in feats THEN {<<60>>, <<>>} ELSE {<<50>>}

SecondsValues(feats) == IF "time_remaining" \in feats THEN {<<120>>, <<>>} ELSE {<<900>>}

HomeValues(feats) == IF "home_away" \in feats THEN {<<"HOME">>, <<>>} ELSE {<<"away">>}

\* score differential given to predict
ScoreQueries(feats) == IF "score" \in feats THEN {<<-7>>, <<0>>, <<>>} ELSE {<<0>>}

PlayRows(feats) ==
    [play : Symbols, situation : SituationsFor(feats), score : ScoreValues(feats),
     team : TeamValues(feats), seconds : SecondsValues(feats),
     home : HomeValues(feats)]

\* which lists a drive is given with, and which of them is one entry too long
Shapes == {"aux", "aux_epas", "bare", "long_situations", "long_epas",
           "long_score", "long_team", "long_seconds", "long_home"}

\* over-long lists are tried on drives of at most one play
ShapesFor(rows) ==
    IF Len(rows) <= 1 THEN Shapes ELSE {"aux", "aux_epas", "bare"}

ListArg(shape, absent, long, xs, extra) ==
    IF shape \in absent THEN NoList
    ELSE IF shape = long THEN SomeList(Append(xs, extra))
    ELSE SomeList(xs)

\* outcome value of the play at index i
EpaAt(i) == 1 + (i % 2)

InsertDriveCall(bound, rows, shape) ==
    LET n == Len(rows)
        play_types == [i \in 1..n |-> rows[i].play]
        situations == [i \in 1..n |-> rows[i].situation]
    IN DoInsertDrive(bound,
          play_types,
          IF shape = "long_situations"
          THEN Append(situations, <<1, 10, 75>>) ELSE situations,
          ListArg(shape, Shapes \ {"aux_epas", "long_epas"}, "long_epas",
                  [i \in 1..n |-> EpaAt(i)], EpaAt(n + 1)),
          ListArg(shape, {"bare"}, "long_score",
                  [i \in 1..n |-> rows[i].score], <<0>>),
          ListArg(shape, {"bare"}, "long_team",
                  [i \in 1..n |-> rows[i].team], <<50>>),
          ListArg(shape, {"bare"}, "long_seconds",
                  [i \in 1..n |-> rows[i].seconds], <<900>>),
          ListArg(shape, {"bare"}, "long_home",
                  [i \in 1..n |-> rows[i].home], <<"away">>))

Init ==
    /\ \E c \in Configs : Construct(c.max_depth, c.features, c.fallback, c.threshold)
    /\ trie = NewTrie(DefaultDepth)
    /\ tret = TIdle
    /\ tlog = EmptyDict
    /\ cls = NoCls /\ ev = NoEval /\ rd = NoReaders /\ stats = NoStats

Next ==
    \/ /\ ret.op = "none"
       /\ \E rows \in SeqsUpTo(PlayRows(features), MaxOps - steps) :
             \E shape \in ShapesFor(rows) : InsertDriveCall(MaxOps, rows, shape)
    \/ /\ ret.op = "none" /\ steps < MaxOps
       /\ \E situation \in SituationsFor(features),
          recent \in SeqsUpTo(Symbols, MaxCtx),
          sd \in ScoreQueries(features), tp \in TeamValues(features),
          gs \in SecondsValues(features), ha \in HomeValues(features) :
          DoPredict(MaxOps, situation, recent, sd, tp, gs, ha)
    \/ Proceed

Spec == Init /\ [][Next]_vars

(***************************************************************************)
(* The documented scenario (test_grouped_trie_insert_and_predict): drives  *)
(* whose i-th play is at the i-th situation of the scenario, given without *)
(* auxiliary lists to a predictor with max_depth = 5 and no features.      *)
(***************************************************************************)
ScenarioSituation(i) ==
    CASE i = 1 -> <<1, 10, 75>>
      [] i = 2 -> <<2, 6, 71>>
      [] i = 3 -> <<3, 2, 65>>
      [] OTHER -> <<4, 1, 64>>

ScenarioConfigs ==
    {Cfg(5, {}, TRUE, DefaultThreshold), Cfg(5, {}, TRUE, 1),
     Cfg(5, {}, FALSE, DefaultThreshold)}

ScenarioInit ==
    /\ \E c \in ScenarioConfigs :
          Construct(c.max_depth, c.features, c.fallback, c.threshold)
    /\ trie = NewTrie(DefaultDepth)
    /\ tret = TIdle
    /\ tlog = EmptyDict
    /\ cls = NoCls /\ ev = NoEval /\ rd = NoReaders /\ stats = NoStats

ScenarioNext ==
    \/ /\ ret.op = "none"
       /\ \E play_types \in SeqsUpTo(Symbols, ScenarioOps - steps) :
             DoInsertDrive(ScenarioOps, play_types,
                           [i \in 1..Len(play_types) |-> ScenarioSituation(i)],
                           NoList, NoList, NoList, NoList, NoList)
    \/ /\ ret.op = "none" /\ steps < ScenarioOps
       /\ \E i \in 1..3, recent \in SeqsUpTo(Symbols, MaxCtx) :
             DoPredict(ScenarioOps, ScenarioSituation(i), recent,
                       <<>>, <<>>, <<>>, <<>>)
    \/ Proceed

SpecScenario == ScenarioInit /\ [][ScenarioNext]_vars

(***************************************************************************)
(* get_statistics (test_statistics): a predictor without features is given *)
(* drives whose i-th play is at the i-th situation of the scenario, and is *)
(* asked for predictions and for its statistics.                           *)
(***************************************************************************)
StatsOps == 3

\* PlaySequenceTrie.get_statistics as the grouped trie uses it
TrieStatistics(t) ==
    LET num_nodes == Cardinality(DOMAIN t.nodes)
    IN [total_sequences |-> t.total_sequences,
        num_nodes |-> num_nodes,
        avg_branching |-> Rat(num_nodes - 1, num_nodes)]

\* get_statistics reporting the number of counted buckets as the total
GetStatisticsBucketsAsTotal(depth, feats, fallback, threshold, trs, counts, fstats) ==
    [max_depth |-> depth, features |-> feats, total_situations |-> Cardinality(DOMAIN counts),
     situation_breakdown |-> counts, num_situation_groups |-> Cardinality(DOMAIN trs)]

\* SituationGroupedTrie.get_statistics
GetStatistics(depth, feats, fallback, threshold, trs, counts, fstats) ==
    LET sufficient_groups == Cardinality({k \in DOMAIN counts : counts[k] >= threshold})
    IN [max_depth |-> depth,
        use_score |-> "score" \in feats,
        use_team_identity |-> "team_identity" \in feats,
        features |-> feats,
        use_hierarchical_fallback |-> fallback,
        min_examples_threshold |-> threshold,
        total_situations |-> SumDict(counts),
        situation_breakdown |-> counts,
        tries |-> [k \in DOMAIN trs |->
                      [total_sequences |-> TrieStatistics(trs[k]).total_sequences,
                       num_nodes |-> TrieStatistics(trs[k]).num_nodes,
                       avg_branching |-> TrieStatistics(trs[k]).avg_branching,
                       has_sufficient_data |-> GetOr0(counts, k) >= threshold]],
        num_situation_groups |-> Cardinality(DOMAIN trs),
        fallback_stats |-> fstats,
        groups_with_sufficient_data |-> sufficient_groups,
        groups_with_sparse_data |-> Cardinality(DOMAIN counts) - sufficient_groups]

DoGetStatistics ==
    /\ ret.op = "none"
    /\ stats' = GetStatistics(max_depth, features, use_hierarchical_fallback,
                              min_examples_threshold, tries, situation_counts,
                              fallback_stats)
    /\ ret' = [Idle EXCEPT !.op = "get_statistics"]
    /\ UNCHANGED <<config, tries, situation_counts, fallback_stats, steps, glog>>
    /\ UNCHANGED <<tvars, cls, ev, rd>>

StatsConfigs == {Cfg(5, {}, TRUE, DefaultThreshold), Cfg(5, {}, TRUE, 2)}

StatsInit ==
    /\ \E c \in StatsConfigs :
          Construct(c.max_depth, c.features, c.fallback, c.threshold)
    /\ trie = NewTrie(DefaultDepth)
    /\ tret = TIdle
    /\ tlog = EmptyDict
    /\ cls = NoCls /\ ev = NoEval /\ rd = NoReaders /\ stats = NoStats

StatsNext ==
    \/ /\ ret.op = "none"
       /\ \E play_types \in SeqsUpTo(Symbols, StatsOps - steps) :
             DoInsertDrive(StatsOps, play_types,
                           [i \in 1..Len(play_types) |-> ScenarioSituation(i)],
                           NoList, NoList, NoList, NoList, NoList)
    \/ /\ ret.op = "none" /\ steps < StatsOps
       /\ \E recent \in SeqsUpTo(Symbols, 1) :
             DoPredict(StatsOps, ScenarioSituation(1), recent, <<>>, <<>>, <<>>, <<>>)
    \/ DoGetStatistics
    \/ Proceed

SpecStats == StatsInit /\ [][StatsNext]_vars

(***************************************************************************)
(* Threads calling predict on one trained predictor while no insert_drive  *)
(* runs.  The engine takes no lock, and the statement                      *)
(* self.fallback_stats[level] += 1 is a read of the entry followed by a    *)
(* write of it, between which another thread may run.                      *)
(***************************************************************************)
NumReaders == 2

ReaderOps == 2

Readers == 1..NumReaders

IdleReader == [pc |-> "idle", args |-> <<>>, dist |-> EmptyDict, depth |-> 0,
               level |-> "", tmp |-> 0]

ReaderConfigs == {Cfg(2, {}, TRUE, 1), Cfg(2, {}, TRUE, 2)}

ReadersInit ==
    /\ \E c \in ReaderConfigs :
          Construct(c.max_depth, c.features, c.fallback, c.threshold)
    /\ trie = NewTrie(DefaultDepth)
    /\ tret = TIdle
    /\ tlog = EmptyDict
    /\ cls = NoCls /\ ev = NoEval /\ stats = NoStats
    /\ rd = [t \in Readers |-> IdleReader]

\* lines 231-253 up to the level that gives the output: reads of the registry,
\* the count map and one trie, which no thread writes
ReaderCompute(t, situation, recent_play_types) ==
    /\ ret.op = "none"
    /\ rd[t].pc = "idle"
    /\ LET r == PredictResult(tries, situation_counts, features,
                    use_hierarchical_fallback, min_examples_threshold,
                    league_average, situation, recent_play_types,
                    <<>>, <<>>, <<>>, <<>>)
       IN rd' = [rd EXCEPT ![t] = [pc |-> "computed",
                                   args |-> [situation |-> situation,
                                             recent_play_types |-> recent_play_types],
                                   dist |-> r.dist, depth |-> r.depth,
                                   level |-> r.level, tmp |-> 0]]
    /\ UNCHANGED <<tvars, gvars, cls, ev, stats>>

\* the read of self.fallback_stats[level] += 1 (lines 243, 251, 255): the
\* subscript on the defaultdict adds a missing entry with 0
ReaderLoad(t) ==
    /\ rd[t].pc = "computed"
    /\ fallback_stats' = AfterSubscript(fallback_stats, rd[t].level)
    /\ rd' = [rd EXCEPT ![t].pc = "loaded",
                        ![t].tmp = GetOr0(fallback_stats, rd[t].level)]
    /\ UNCHANGED <<config, tries, situation_counts, ret, steps, glog>>
    /\ UNCHANGED <<tvars, cls, ev, stats>>

\* the write of self.fallback_stats[level] += 1, then the return
ReaderStore(t) ==
    /\ rd[t].pc = "loaded"
    /\ fallback_stats' = [x \in DOMAIN fallback_stats \cup {rd[t].level} |->
                             IF x = rd[t].level THEN rd[t].tmp + 1
                             ELSE fallback_stats[x]]
    /\ rd' = [rd EXCEPT ![t].pc = "returned"]
    /\ UNCHANGED <<config, tries, situation_counts, ret, steps, glog>>
    /\ UNCHANGED <<tvars, cls, ev, stats>>

\* training ends before the first reader starts
ReadersTrain ==
    /\ ret.op = "none"
    /\ \A t \in Readers : rd[t].pc = "idle"
    /\ \E rows \in SeqsUpTo(PlayRows(features), ReaderOps - steps) :
          InsertDriveCall(ReaderOps, rows, "bare")

ReadersNext ==
    \/ ReadersTrain
    \/ Proceed
    \/ \E t \in Readers, situation \in SituationsFor(features), recent \in SeqsUpTo(Symbols, 1) :
          ReaderCompute(t, situation, recent)
    \/ \E t \in Readers : ReaderLoad(t)
    \/ \E t \in Readers : ReaderStore(t)

SpecReaders == ReadersInit /\ [][ReadersNext]_vars

(***************************************************************************)
(* CorrectedTrieEvaluator.evaluate_drives on a trained predictor without   *)
(* features.  The frame holds the columns play_type, down, ydstogo and     *)
(* yardline_100, so every auxiliary value given to predict is None; its    *)
(* groups come in key order, each a drive of one to EvalLen plays.  One    *)
(* step of the evaluator is one pass of the inner loop.                    *)
(***************************************************************************)
EvalLen == 3

EvalTrainOps == 2

MinContexts == {1, 2}

\* values of the play_type column
PlayTypeValues == {"pass", "run", "punt"}

\* encode treating every play that is not a pass as a run
EncodeNoOther(play_type) ==
    IF play_type = "pass" THEN "P" ELSE "R"

\* SimplePlayClassifier.encode: the code of the SimplePlayType
Encode(play_type) ==
    IF play_type = "pass" THEN "P"
    ELSE IF play_type = "run" THEN "R"
    ELSE "OTHER"

\* SimplePlayClassifier.encode_series
EncodeSeries(plays) == [j \in 1..Len(plays) |-> Encode(plays[j])]

\* down, ydstogo, yardline_100 of the plays of the d-th drive
EvalSituation(d) == IF d = 1 THEN <<1, 10, 75>> ELSE <<3, 2, 65>>

\* the next pass of the loops from drive d (1-based), index i (0-based) on:
\* drives of at most min_context plays are skipped, the index runs over
\* range(min_context, len(drive_plays)); d beyond the last drive: loops over
RECURSIVE SeekPos(_, _, _, _)
SeekPos(drives, min_context, d, i) ==
    IF d > Len(drives) THEN [d |-> d, i |-> 0]
    ELSE IF Len(drives[d]) <= min_context \/ i >= Len(drives[d])
    THEN SeekPos(drives, min_context, d + 1, min_context)
    ELSE [d |-> d, i |-> i]

RGe(a, b) == a.n * b.d * (a.d * b.d) >= b.n * a.d * (a.d * b.d)

RMul(a, b) == Rat(a.n * b.n, a.d * b.d)

\* numerator / denominator if denominator > 0 else 0
Ratio(n, d) == IF d > 0 THEN Rat(n, d) ELSE Rat(0, 1)

RECURSIVE RSum(_)
RSum(xs) == IF xs = <<>> THEN Rat(0, 1) ELSE RAdd(Head(xs), RSum(Tail(xs)))

\* sum(xs) / len(xs) if xs else 0
Average(xs) == IF xs = <<>> THEN Rat(0, 1) ELSE RDiv(RSum(xs), Rat(Len(xs), 1))

\* the keys of the dict predict returns, in its order: the order of the trie's
\* predictions at levels 1 and 2 (and with the fallback disabled), P before R
\* in the copy of league_average
PredictionOrder(trs, key, recent_play_types, level) ==
    IF level = "level_3_league" THEN <<"P", "R">>
    ELSE LET ps == TriePredict(trs[key], recent_play_types, GroupedK).predictions
         IN [j \in 1..Len(ps) |-> Code(ps[j].play)]

\* max(predictions.items(), key=lambda x: x[1])[0]: the first key of the
\* largest probability
PredictedCode(order, dist) ==
    LET best == {j \in 1..Len(order) : \A m \in 1..Len(order) : RGe(dist[order[j]], dist[order[m]])}
    IN order[CHOOSE j \in best : \A m \in best : j <= m]

EvalCounters ==
    [total |-> 0, correct |-> 0,
     true_positives_pass |-> 0, false_positives_pass |-> 0, false_negatives_pass |-> 0,
     true_positives_run |-> 0, false_positives_run |-> 0, false_negatives_run |-> 0,
     pass_confidences |-> <<>>, run_confidences |-> <<>>]

\* lines 137-163: the counters after a play that is counted
Counted(c, actual_code, predicted_code, predicted_prob) ==
    [total |-> c.total + 1,
     correct |-> c.correct + (IF predicted_code = actual_code THEN 1 ELSE 0),
     true_positives_pass |-> c.true_positives_pass
        + (IF predicted_code = "P" /\ actual_code = "P" THEN 1 ELSE 0),
     false_positives_pass |-> c.false_positives_pass
        + (IF predicted_code = "P" /\ actual_code # "P" THEN 1 ELSE 0),
     false_negatives_pass |-> c.false_negatives_pass
        + (IF actual_code = "P" /\ predicted_code # "P" THEN 1 ELSE 0),
     true_positives_run |-> c.true_positives_run
        + (IF predicted_code = "R" /\ actual_code = "R" THEN 1 ELSE 0),
     false_positives_run |-> c.false_positives_run
        + (IF predicted_code = "R" /\ actual_code # "R" THEN 1 ELSE 0),
     false_negatives_run |-> c.false_negatives_run
        + (IF actual_code = "R" /\ predicted_code # "R" THEN 1 ELSE 0),
     pass_confidences |-> IF predicted_code = "P"
                          THEN Append(c.pass_confidences, predicted_prob)
                          ELSE c.pass_confidences,
     run_confidences |-> IF predicted_code = "R"
                         THEN Append(c.run_confidences, predicted_prob)
                         ELSE c.run_confidences]

\* lines 165-200: the BinaryPredictionMetrics returned
Metrics(c) ==
    LET pass_precision == Ratio(c.true_positives_pass,
                                c.true_positives_pass + c.false_positives_pass)
        run_precision == Ratio(c.true_positives_run,
                               c.true_positives_run + c.false_positives_run)
        pass_recall == Ratio(c.true_positives_pass,
                             c.true_positives_pass + c.false_negatives_pass)
        run_recall == Ratio(c.true_positives_run,
                            c.true_positives_run + c.false_negatives_run)
    IN [pass_accuracy |-> RMul(pass_precision, pass_recall),
        run_accuracy |-> RMul(run_precision, run_recall),
        overall_accuracy |-> Ratio(c.correct, c.total),
        pass_precision |-> pass_precision, run_precision |-> run_precision,
        pass_recall |-> pass_recall, run_recall |-> run_recall,
        total_predictions |-> c.total,
        avg_pass_confidence |-> Average(c.pass_confidences),
        avg_run_confidence |-> Average(c.run_confidences)]

\* lines 66-83: the counters are zeroed and the frame is grouped into drives
EvalStart(min_context, drives) ==
    /\ ret.op = "none"
    /\ ev.pc = "none"
    /\ ev' = [pc |-> "loop", min_context |-> min_context, drives |-> drives,
              pos |-> SeekPos(drives, min_context, 1, min_context),
              counters |-> EvalCounters, metrics |-> <<>>]
    /\ UNCHANGED <<tvars, gvars, cls, rd, stats>>

\* lines 90-163: one pass of the inner loop, for the play at ev.pos
EvalPlay ==
    /\ ev.pc = "loop"
    /\ ev.pos.d <= Len(ev.drives)
    /\ LET drive_plays == ev.drives[ev.pos.d]
           i == ev.pos.i
           context_types == EncodeSeries(SubSeq(drive_plays, 1, i))
           actual_code == Encode(drive_plays[i + 1])
           situation == EvalSituation(ev.pos.d)
           r == PredictResult(tries, situation_counts, features,
                    use_hierarchical_fallback, min_examples_threshold,
                    league_average, situation, context_types, <<>>, <<>>, <<>>, <<>>)
           s == StateAfterPredict(State, features, use_hierarchical_fallback,
                    r.level, situation, <<>>, <<>>, <<>>, <<>>)
           key == IF r.level = "level_2_base" THEN <<BaseOf(situation)>>
                  ELSE GetSpecificSituationGroup(features, situation,
                                                 <<>>, <<>>, <<>>, <<>>)
           predicted_code == PredictedCode(
                                 PredictionOrder(tries, key, context_types, r.level),
                                 r.dist)
           next == SeekPos(ev.drives, ev.min_context, ev.pos.d, i + 1)
       IN IF actual_code = "OTHER"
          THEN /\ ev' = [ev EXCEPT !.pos = next]
               /\ UNCHANGED <<tries, situation_counts, fallback_stats>>
          ELSE /\ tries' = s.tries
               /\ situation_counts' = s.situation_counts
               /\ fallback_stats' = IF r.level = "" THEN fallback_stats
                                    ELSE IncDict(fallback_stats, r.level)
               /\ ev' = IF DOMAIN r.dist = {}
                        THEN [ev EXCEPT !.pos = next]
                        ELSE [ev EXCEPT !.pos = next,
                                        !.counters = Counted(@, actual_code,
                                                         predicted_code,
                                                         r.dist[predicted_code])]
    /\ UNCHANGED <<config, ret, steps, glog>>
    /\ UNCHANGED <<tvars, cls, rd, stats>>

\* lines 165-200: the loops are over, the metrics are computed and returned
EvalFinish ==
    /\ ev.pc = "loop"
    /\ ev.pos.d > Len(ev.drives)
    /\ ev' = [ev EXCEPT !.pc = "done", !.metrics = Metrics(ev.counters)]
    /\ UNCHANGED <<tvars, gvars, cls, rd, stats>>

EvalConfigs == {Cfg(2, {}, TRUE, 1), Cfg(2, {}, FALSE, 1)}

EvalInit ==
    /\ \E c \in EvalConfigs :
          Construct(c.max_depth, c.features, c.fallback, c.threshold)
    /\ trie = NewTrie(DefaultDepth)
    /\ tret = TIdle
    /\ tlog = EmptyDict
    /\ cls = NoCls /\ ev = NoEval /\ rd = NoReaders /\ stats = NoStats

\* the frames: a drive of up to EvalLen plays, or such a drive followed by a
\* drive of up to two passes and punts
EvalFrames ==
    LET firsts == SeqsUpTo(PlayTypeValues, EvalLen) \ {<<>>}
        seconds == SeqsUpTo({"pass", "punt"}, 2) \ {<<>>}
    IN {<<f>> : f \in firsts} \cup {<<f, g>> : f \in firsts, g \in seconds}

\* the predictor is trained with one drive, before the evaluation starts
EvalTrain ==
    /\ ret.op = "none"
    /\ ev.pc = "none"
    /\ situation_counts = EmptyDict
    /\ \E play_types \in SeqsUpTo(Symbols, EvalTrainOps - steps) :
          DoInsertDrive(EvalTrainOps, play_types,
                        [j \in 1..Len(play_types) |-> EvalSituation(1)],
                        NoList, NoList, NoList, NoList, NoList)

EvalNext ==
    \/ EvalTrain
    \/ Proceed
    \/ \E min_context \in MinContexts, drives \in EvalFrames :
          EvalStart(min_context, drives)
    \/ EvalPlay
    \/ EvalFinish

SpecEval == EvalInit /\ [][EvalNext]_vars

(***************************************************************************)
(* Calls of get_situation_group on its own (test_situation_grouping).      *)
(***************************************************************************)
ClsDowns == {0, 1, 2, 3, 4, 5}

ClsDistances == {0, 1, 3, 4, 7, 8, 15}

ClsYardlines == {0, 3, 5, 6, 20, 21, 65, 100}

ClassifyInit ==
    /\ Construct(DefaultDepth, {}, TRUE, DefaultThreshold)
    /\ trie = NewTrie(DefaultDepth)
    /\ tret = TIdle
    /\ tlog = EmptyDict
    /\ cls = NoCls /\ ev = NoEval /\ rd = NoReaders /\ stats = NoStats

Classify ==
    /\ \E down \in ClsDowns, ydstogo \in ClsDistances, yardline_100 \in ClsYardlines :
          cls' = [op |-> "get_situation_group", down |-> down, ydstogo |-> ydstogo,
                  yardline_100 |-> yardline_100,
                  group |-> get_situation_group(down, ydstogo, yardline_100)]
    /\ UNCHANGED <<tvars, gvars, ev, rd, stats>>

SpecClassify == ClassifyInit /\ [][Classify]_vars

(***************************************************************************)
(* Properties of the stand-alone trie                                      *)
(***************************************************************************)
\* occurrences of w as a contiguous run of the sequence s
RunsIn(s, w) ==
    Cardinality({o \in 0..(Len(s) - Len(w)) : SubSeq(s, o + 1, o + Len(w)) = w})

\* occurrences of w in the sequences inserted so far, over all calls and offsets
Occ(w) == SumDict([s \in DOMAIN tlog |-> tlog[s] * RunsIn(s, w)])

SymbolsSeen == UNION {{s[i] : i \in 1..Len(s)} : s \in DOMAIN tlog}

StoredPath(w) == w \in DOMAIN trie.nodes

\* C2: the node of a path w (1 <= len(w) <= max_depth) exists exactly when w
\* occurs in the inserted sequences; its total_visits is the number of
\* occurrences of w and its next-symbol count for x the number of occurrences
\* of w followed by x; predict(w) on a stored w reports, for each returned x,
\* the ratio of the two.
C2_CountsAreOccurrences ==
    /\ \A w \in DOMAIN trie.nodes : Len(w) <= trie.max_depth
    /\ \A w \in SeqsUpTo(SymbolsSeen, Min2(trie.max_depth, MaxSyms)) \ {<<>>} :
          /\ StoredPath(w) <=> Occ(w) > 0
          /\ StoredPath(w) =>
                /\ trie.nodes[w].total_visits = Occ(w)
                /\ \A x \in SymbolsSeen :
                      CountOf(trie.nodes[w].next_play_counts, x) = Occ(Append(w, x))
                /\ \A j \in 1..Len(trie.nodes[w].next_play_counts) :
                      trie.nodes[w].next_play_counts[j].play \in SymbolsSeen
    /\ (tret.op = "predict" /\ tret.play_types # <<>>
            /\ Len(tret.play_types) <= trie.max_depth /\ StoredPath(tret.play_types))
       => /\ tret.depth_matched = Len(tret.play_types)
          /\ \A j \in 1..Len(tret.predictions) :
                REq(tret.predictions[j].prob,
                    Rat(Occ(Append(tret.play_types, tret.predictions[j].play)),
                        Occ(tret.play_types)))

\* a prediction from a stored context, fed by more than one insertion, in
\* which two next symbols have different probabilities
C2_Witness ==
    /\ tret.op = "predict" /\ tret.depth_matched = Len(tret.play_types)
    /\ tret.depth_matched >= 1
    /\ SumDict(tlog) >= 2
    /\ Len(tret.predictions) = 2
    /\ ~REq(tret.predictions[1].prob, tret.predictions[2].prob)

\* the true next symbol s[j+1] has positive probability in the answer to the
\* prefix of length j of s
TrueNextReturned(s, j) ==
    LET r == TriePredict(trie, SubSeq(s, 1, j), DefaultK)
    IN \E e \in 1..Len(r.predictions) :
          r.predictions[e].play = s[j + 1] /\ RPos(r.predictions[e].prob)

\* the node the prefix of length j of s is answered from
MatchedNode(s, j) ==
    trie.nodes[WalkMatch(trie.nodes, LastN(SubSeq(s, 1, j), trie.max_depth), <<>>, 1)]

\* C3 (as stated): right after insert_sequence(s), len(s) >= 2, every
\* predict(s[0..j)), 1 <= j <= len(s)-1, is non-empty and gives the true next
\* symbol a positive probability.
C3_RoundTrip_Original ==
    (tret.op = "insert_sequence" /\ Len(tret.play_types) >= 2)
    => \A j \in 1..(Len(tret.play_types) - 1) :
          /\ TriePredict(trie, SubSeq(tret.play_types, 1, j), DefaultK).predictions # <<>>
          /\ TrueNextReturned(tret.play_types, j)

\* C3 (amended): right after insert_sequence(s), every predict(s[0..j)) is
\* non-empty, and it gives the true next symbol a positive probability
\* whenever the matched node records at most k (default 5) distinct next
\* symbols.
C3_RoundTrip ==
    (tret.op = "insert_sequence" /\ Len(tret.play_types) >= 2)
    => \A j \in 1..(Len(tret.play_types) - 1) :
          /\ TriePredict(trie, SubSeq(tret.play_types, 1, j), DefaultK).predictions # <<>>
          /\ Len(MatchedNode(tret.play_types, j).next_play_counts) <= DefaultK
                => TrueNextReturned(tret.play_types, j)

\* a sequence of three symbols was inserted into a trie of depth 1, whose
\* node for its second prefix already records exactly k distinct next symbols
C3_Witness ==
    /\ tret.op = "insert_sequence" /\ Len(tret.play_types) = 3
    /\ trie.max_depth = 1
    /\ Len(MatchedNode(tret.play_types, 2).next_play_counts) = DefaultK
    /\ TrueNextReturned(tret.play_types, 2)

\* the longest prefix of the retained window that is a stored path
LongestStoredPrefix(window) ==
    LET js == {j \in 0..Len(window) : StoredPath(SubSeq(window, 1, j))}
    IN SubSeq(window, 1, CHOOSE j \in js : \A h \in js : h <= j)

\* the longest suffix of the context that is a stored path
LongestStoredSuffix(context) ==
    LET js == {j \in 0..Len(context) : StoredPath(LastN(context, j)) /\ (j = 0 => TRUE)}
        best == CHOOSE j \in js : \A h \in js : h <= j
    IN IF best = 0 THEN <<>> ELSE LastN(context, best)

\* C4 (as stated): when the full context is not a stored path, the prediction
\* is taken from the longest suffix of the context that is a stored path.
C4_BackOff_Original ==
    (tret.op = "predict" /\ ~StoredPath(tret.play_types))
    => LET w == LongestStoredSuffix(tret.play_types)
       IN /\ tret.depth_matched = Len(w)
          /\ tret.predictions = GetNextPlayProbs(trie.nodes[w], tret.k)

\* C4 (amended): the prediction is taken from the longest PREFIX of the
\* retained window (the last max_depth symbols of the context) that is a
\* stored path, and depth_matched is the length of that prefix: the walk
\* starts at the oldest retained symbol and stops at the first unseen link.
C4_BackOff ==
    tret.op = "predict"
    => LET w == LongestStoredPrefix(LastN(tret.play_types, trie.max_depth))
       IN /\ tret.depth_matched = Len(w)
          /\ tret.predictions = GetNextPlayProbs(trie.nodes[w], tret.k)

\* a context that is not stored, answered from a proper non-empty prefix of
\* its window although a longer suffix of it is stored
C4_Witness ==
    /\ tret.op = "predict" /\ ~StoredPath(tret.play_types)
    /\ tret.depth_matched >= 1
    /\ tret.depth_matched < Len(LastN(tret.play_types, trie.max_depth))
    /\ tret.predictions # <<>>
    /\ Len(LongestStoredSuffix(tret.play_types)) > tret.depth_matched

(***************************************************************************)
(* Properties of the SituationGroupedTrie                                  *)
(***************************************************************************)
ScenarioDrive ==
    [play_types |-> <<"P", "R", "P">>,
     situations |-> <<<<1, 10, 75>>, <<2, 6, 71>>, <<3, 2, 65>>>>,
     raised |-> ""]

\* the scenario's one drive was inserted and its prediction has just been made
ScenarioAsked ==
    /\ max_depth = 5 /\ features = {}
    /\ DOMAIN glog = {ScenarioDrive} /\ glog[ScenarioDrive] = 1
    /\ ret.op = "predict"
    /\ ret.args.situation = <<3, 2, 65>>
    /\ ret.args.recent_play_types = <<"P", "R">>

IsDist(d, n, den, codes) ==
    /\ DOMAIN d = codes
    /\ \A c \in codes : REq(d[c], Rat(n[c], den))

OnlyPass == IsDist(ret.dist, [c \in {"P"} |-> 1], 1, {"P"}) /\ ret.depth = 2

\* C1 (as stated): with max_depth = 5, no features and every other setting at
\* its default, the scenario's prediction is {P: 1.0} at depth_matched = 2.
C1_Scenario_Original ==
    (ScenarioAsked /\ use_hierarchical_fallback
        /\ min_examples_threshold = DefaultThreshold)
    => OnlyPass

\* C1 (amended): with the default settings the scenario's prediction is the
\* global prior {P: 0.58, R: 0.42} at depth_matched = 0 (the bucket holds 1
\* insertion, fewer than the default threshold of 50); it is {P: 1.0} at
\* depth_matched = 2 when the predictor is built with
\* min_examples_threshold = 1 or with the hierarchical fallback disabled.
C1_Scenario ==
    ScenarioAsked
    => IF use_hierarchical_fallback /\ min_examples_threshold = DefaultThreshold
       THEN /\ IsDist(ret.dist, ("P" :> 58) @@ ("R" :> 42), 100, {"P", "R"})
            /\ ret.depth = 0
       ELSE OnlyPass

\* the scenario's prediction answered by a predictor with threshold 1
C1_Witness ==
    /\ ScenarioAsked /\ use_hierarchical_fallback /\ min_examples_threshold = 1
    /\ OnlyPass

\* the bucket keys of the prediction just made
SpecificKey ==
    GetSpecificSituationGroup(features, ret.args.situation, ret.args.score_diff,
                              ret.args.team_pass_rate,
                              ret.args.game_seconds_remaining, ret.args.posteam_type)

CanonicalKey == <<BaseOf(ret.args.situation)>>

\* what the trie of a bucket answers to the prediction's context
Answer(key) == QueryGroup(tries, key, ret.args.recent_play_types)

\* a level of the fallback succeeds on a bucket
Succeeds(key) ==
    /\ key \in DOMAIN tries
    /\ GetOr0(situation_counts, key) >= min_examples_threshold
    /\ DOMAIN Answer(key).dist # {}

Returned(a) == ret.dist = a.dist /\ ret.depth = a.depth

SameDist(d, e) == DOMAIN d = DOMAIN e /\ \A c \in DOMAIN d : REq(d[c], e[c])

\* C5: with fallback enabled predict returns the output of the first level
\* that succeeds: the specific bucket if its trie exists, its count reaches
\* min_examples_threshold and its distribution is non-empty; else the
\* canonical bucket under the same conditions; else the global prior with
\* depth_matched = 0.  A bucket whose count is below the threshold is never
\* the one answered from.
C5_FallbackOrder ==
    (ret.op = "predict" /\ use_hierarchical_fallback)
    => /\ Succeeds(SpecificKey)
            => Returned(Answer(SpecificKey)) /\ ret.level = "level_1_specific"
       /\ (~Succeeds(SpecificKey) /\ Succeeds(CanonicalKey))
            => Returned(Answer(CanonicalKey)) /\ ret.level = "level_2_base"
       /\ (~Succeeds(SpecificKey) /\ ~Succeeds(CanonicalKey))
            => /\ ret.dist = league_average /\ ret.depth = 0
               /\ ret.level = "level_3_league"
       /\ GetOr0(situation_counts, SpecificKey) < min_examples_threshold
            => ret.level # "level_1_specific"
       /\ GetOr0(situation_counts, CanonicalKey) < min_examples_threshold
            => ret.level = "level_3_league"

\* an under-populated specific bucket that would answer is passed over for
\* the canonical bucket
C5_Witness ==
    /\ ret.op = "predict" /\ use_hierarchical_fallback
    /\ SpecificKey # CanonicalKey
    /\ SpecificKey \in DOMAIN tries
    /\ DOMAIN Answer(SpecificKey).dist # {}
    /\ GetOr0(situation_counts, SpecificKey) < min_examples_threshold
    /\ ret.level = "level_2_base"
    /\ Returned(Answer(CanonicalKey))

\* C6: with fallback disabled predict consults only the specific bucket's
\* trie, whatever its count: without a trie for that key it returns the empty
\* distribution with depth_matched = 0, otherwise that trie's answer; it
\* never returns the global prior, nor the canonical bucket's output in place
\* of the specific bucket's.
C6_NoFallback ==
    (ret.op = "predict" /\ ~use_hierarchical_fallback)
    => /\ IF SpecificKey \in DOMAIN tries
          THEN Returned(Answer(SpecificKey))
          ELSE ret.dist = EmptyDict /\ ret.depth = 0
       /\ ~SameDist(ret.dist, league_average)
       /\ ret.level = ""

\* fallback disabled: an empty answer for an absent specific bucket although
\* the canonical bucket would answer
C6_Witness ==
    /\ ret.op = "predict" /\ ~use_hierarchical_fallback
    /\ SpecificKey \notin DOMAIN tries
    /\ CanonicalKey \in DOMAIN tries
    /\ DOMAIN Answer(CanonicalKey).dist # {}
    /\ ret.dist = EmptyDict /\ ret.depth = 0

\* the bucket the prediction was answered from, its matched node and the
\* next-symbol counts that node returns
SourceKey == IF ret.level = "level_2_base" THEN CanonicalKey ELSE SpecificKey

SourceNode ==
    LET t == tries[SourceKey]
    IN t.nodes[WalkMatch(t.nodes, LastN(ret.args.recent_play_types, t.max_depth),
                         <<>>, 1)]

ReturnedCounts == FirstN(SortedDesc(SourceNode.next_play_counts), GroupedK)

RECURSIVE SumCounts(_, _)
SumCounts(items, codes) ==
    IF items = <<>> THEN 0
    ELSE (IF Code(Head(items).play) \in codes THEN Head(items).count ELSE 0)
            + SumCounts(Tail(items), codes)

AllCodes == {Code(p) : p \in Symbols}

\* C7: a non-empty distribution returned by predict sums to 1; when it comes
\* from a bucket, each probability is that type's summed next-symbol count
\* over the total of the returned counts.
C7_SumsToOne ==
    (ret.op = "predict" /\ DOMAIN ret.dist # {})
    => /\ REq(SumValues(ret.dist), Rat(1, 1))
       /\ ret.level # "level_3_league"
            => /\ DOMAIN ret.dist = {c \in AllCodes : SumCounts(ReturnedCounts, {c}) > 0}
               /\ \A c \in DOMAIN ret.dist :
                     REq(ret.dist[c], Rat(SumCounts(ReturnedCounts, {c}),
                                          SumCounts(ReturnedCounts, AllCodes)))

\* a bucket's answer whose node was visited more often than it recorded a
\* next symbol, so that only the normalisation makes the sum 1
C7_Witness ==
    /\ ret.op = "predict" /\ DOMAIN ret.dist # {}
    /\ ret.level # "level_3_league"
    /\ SumCounts(ReturnedCounts, AllCodes) < SourceNode.total_visits
    /\ REq(SumValues(ret.dist), Rat(1, 1))

\* the list given for an auxiliary feature
ListOf(f) ==
    CASE f = "score" -> ret.args.score_diffs
      [] f = "team_identity" -> ret.args.team_pass_rates
      [] f = "time_remaining" -> ret.args.game_seconds_remaining
      [] f = "home_away" -> ret.args.posteam_types

AllFeatures == {"score", "team_identity", "time_remaining", "home_away"}

Mismatched(l) == l.given /\ Len(l.list) # Len(ret.args.situations)

\* C8 (as stated): insert_drive fails with a validation error whenever symbols
\* and situations differ in length and whenever any supplied parallel list
\* (outcome values included) differs in length from the situations, whatever
\* features are configured.
C8_LengthChecks_Original ==
    (ret.op = "insert_drive"
        /\ \/ Len(ret.args.play_types) # Len(ret.args.situations)
           \/ Mismatched(ret.args.epas)
           \/ \E f \in AllFeatures : Mismatched(ListOf(f)))
    => ret.raised = "ValueError"

\* C8 (amended): insert_drive fails with a validation error exactly when
\* symbols and situations differ in length or a supplied list of a CONFIGURED
\* feature differs in length from the situations; the outcome values and the
\* lists of features that are not configured are not checked.
C8_LengthChecks ==
    ret.op = "insert_drive"
    => (ret.raised = "ValueError"
          <=> \/ Len(ret.args.play_types) # Len(ret.args.situations)
              \/ \E f \in features : Mismatched(ListOf(f)))

\* a drive rejected for the list of a configured feature alone, and a drive
\* accepted with over-long outcome values
C8_Witness ==
    /\ ret.op = "insert_drive" /\ ret.raised = "ValueError"
    /\ Len(ret.args.play_types) = Len(ret.args.situations)
    /\ Len(ret.args.play_types) >= 1
    /\ \E f \in features : Mismatched(ListOf(f))

OutOfDomain(situation) == situation[1] \notin 1..4

PlaysOutOfDomain(situations) ==
    Cardinality({i \in 1..Len(situations) : OutOfDomain(situations[i])})

\* C9 (as stated): a situation whose down is outside {1,2,3,4} is rejected
\* with a validation error by insert_drive and by predict.
C9_DownRejected_Original ==
    /\ (ret.op = "insert_drive"
          /\ \E i \in 1..Len(ret.args.situations) : OutOfDomain(ret.args.situations[i]))
       => ret.raised = "ValueError"
    /\ (ret.op = "predict" /\ OutOfDomain(ret.args.situation))
       => ret.raised = "ValueError"

\* C9 (amended): a down outside {1,2,3,4} is never rejected.  Classification
\* maps such a situation by field position first (goal_line up to 5 yards,
\* red_zone up to 20) and otherwise to the catch-all group "other";
\* insert_drive inserts its play into that bucket and predict answers from
\* that bucket, neither raising for it.
C9_DownRejected ==
    /\ \A down \in {0, 5}, ydstogo \in {2, 5, 10}, yardline_100 \in {3, 15, 65} :
          get_situation_group(down, ydstogo, yardline_100)
             = IF yardline_100 <= 5 THEN "goal_line"
               ELSE IF yardline_100 <= 20 THEN "red_zone" ELSE "other"
    /\ (ret.op = "insert_drive"
          /\ Len(ret.args.play_types) = Len(ret.args.situations)
          /\ \E i \in 1..Len(ret.args.situations) : OutOfDomain(ret.args.situations[i]))
       => ret.raised = ""
    /\ features = {}
       => GetOr0(situation_counts, <<"other">>)
             = SumDict([d \in DOMAIN glog |->
                           glog[d] * PlaysOutOfDomain(d.situations)])
    /\ (ret.op = "predict" /\ OutOfDomain(ret.args.situation))
       => /\ ret.raised = ""
          /\ SpecificKey = <<"other">>
          /\ ~use_hierarchical_fallback => Returned(Answer(<<"other">>))
          /\ ret.level = "level_1_specific" => Returned(Answer(<<"other">>))

\* a prediction for a down of 5 answered from the plays inserted with it
C9_Witness ==
    /\ ret.op = "predict" /\ OutOfDomain(ret.args.situation)
    /\ GetOr0(situation_counts, <<"other">>) >= 1
    /\ DOMAIN ret.dist # {}
    /\ Returned(Answer(<<"other">>))

\* a value is missing at some index of a supplied list that the bucket key
\* of the configuration is computed from
MissingValueGiven ==
    LET used == IF use_time_remaining /\ use_home_away
                THEN {"time_remaining", "home_away"}
                ELSE features \cap {"score", "team_identity"}
    IN /\ used # {}
       /\ \A f \in used : ListOf(f).given
       /\ \E f \in used : \E i \in 1..Len(ListOf(f).list) : ListOf(f).list[i] = <<>>

\* C10 (as stated): with a feature enabled and its value missing at an index
\* of a supplied list, insert_drive does not fail.
C10_MissingValue ==
    (ret.op = "insert_drive" /\ ret.raised # "ValueError" /\ MissingValueGiven)
    => ret.raised = ""

(***************************************************************************)
(* Properties of get_situation_group                                       *)
(***************************************************************************)
ShortMediumLong(ydstogo, short, medium, long) ==
    CASE ydstogo <= 3 -> short
      [] ydstogo >= 4 /\ ydstogo <= 7 -> medium
      [] ydstogo >= 8 -> long

\* the precedence table, for a down in 1..4
PrecedenceTable(down, ydstogo, yardline_100) ==
    CASE yardline_100 <= 5 -> "goal_line"
      [] yardline_100 >= 6 /\ yardline_100 <= 20 -> "red_zone"
      [] yardline_100 >= 21 /\ down = 4 -> "fourth_down"
      [] yardline_100 >= 21 /\ down = 3 ->
            ShortMediumLong(ydstogo, "third_short", "third_medium", "third_long")
      [] yardline_100 >= 21 /\ down \in {1, 2} ->
            ShortMediumLong(ydstogo, "early_down_short", "early_down_medium",
                            "early_down_long")

\* C11: for a down in 1..4 get_situation_group equals the precedence table
\* (goal-line, then red-zone, then fourth down, then third down by distance,
\* then early downs by distance) and never returns "other".
C11_PrecedenceTable ==
    (cls.op = "get_situation_group" /\ cls.down \in 1..4)
    => /\ cls.group = PrecedenceTable(cls.down, cls.ydstogo, cls.yardline_100)
       /\ cls.group # "other"
       /\ cls.group \in SituationGroup

\* third and short at the 3-yard line is goal-line, not third-short
C11_Witness ==
    /\ cls.op = "get_situation_group"
    /\ cls.down = 3 /\ cls.ydstogo <= 3 /\ cls.yardline_100 = 3
    /\ cls.group = "goal_line"

(***************************************************************************)
(* Registry and insertion counts                                           *)
(***************************************************************************)
CanonicalKeys == {<<b>> : b \in SituationGroup}

\* C12 as stated: in every reachable state the registry and the count map
\* have the same keys, and every count is non-negative.
C12_SameKeys_Original ==
    /\ DOMAIN tries = DOMAIN situation_counts
    /\ \A k \in DOMAIN situation_counts : situation_counts[k] >= 0

\* C12 amended: every key of the count map is a key of the registry and its
\* count is at least 1; a registry key without a count is one of the tries a
\* predictor without features builds at construction, and that trie is still
\* empty; with features configured the two key sets are equal.
C12_CountedKeys ==
    /\ DOMAIN situation_counts \subseteq DOMAIN tries
    /\ \A k \in DOMAIN situation_counts : situation_counts[k] >= 1
    /\ \A k \in DOMAIN tries \ DOMAIN situation_counts :
          /\ features = {}
          /\ k \in CanonicalKeys
          /\ tries[k] = NewTrie(max_depth)
    /\ features # {} => DOMAIN tries = DOMAIN situation_counts

\* a trained predictor without features: counted buckets next to pre-built,
\* still uncounted ones
C12_Witness ==
    /\ features = {}
    /\ \E k \in DOMAIN situation_counts : situation_counts[k] >= 2
    /\ \E k \in DOMAIN tries : k \notin DOMAIN situation_counts

\* the node at path p of trie big counts at least what the node at p of trie
\* small counts
NodeCovers(big, small, p) ==
    /\ p \in DOMAIN big.nodes
    /\ big.nodes[p].total_visits >= small.nodes[p].total_visits
    /\ \A j \in 1..Len(small.nodes[p].next_play_counts) :
          LET e == small.nodes[p].next_play_counts[j]
          IN CountOf(big.nodes[p].next_play_counts, e.play) >= e.count

CompositeKeys == {k \in DOMAIN tries : Len(k) > 1}

\* C13: with hierarchical fallback enabled and a feature configured, the
\* canonical bucket of every composite key stores every path of the
\* composite trie with visit and next-symbol counts at least as large, and
\* its insertion count is at least the composite's.
C13_CanonicalSuperset ==
    (use_hierarchical_fallback /\ features # {})
    => \A k \in CompositeKeys :
          LET b == <<k[1]>>
          IN /\ b \in DOMAIN tries
             /\ \A p \in DOMAIN tries[k].nodes : NodeCovers(tries[b], tries[k], p)
             /\ GetOr0(situation_counts, b) >= GetOr0(situation_counts, k)
             /\ GetOr0(situation_counts, k) >= 1

\* two composite buckets of one canonical bucket, which has counted more
\* insertions than either
C13_Witness ==
    /\ use_hierarchical_fallback /\ features # {}
    /\ \E k1, k2 \in CompositeKeys :
          /\ k1 # k2 /\ k1[1] = k2[1]
          /\ Cardinality(DOMAIN tries[k1].nodes) > 1
          /\ situation_counts[<<k1[1]>>] > situation_counts[k1]
          /\ situation_counts[<<k1[1]>>] > situation_counts[k2]

(***************************************************************************)
(* Statistics                                                              *)
(***************************************************************************)
\* the drives insert_drive went through without raising
SuccessfulDrives == {d \in DOMAIN glog : d.raised = ""}

\* plays given in successful calls of insert_drive
PlaysInserted ==
    SumDict([d \in SuccessfulDrives |-> glog[d] * Len(d.play_types)])

\* those of them whose situation classifies to bucket b
PlaysIn(b) ==
    SumDict([d \in SuccessfulDrives |->
                glog[d] * Cardinality({i \in 1..Len(d.play_types) :
                                          BaseOf(d.situations[i]) = b})])

AfterSuccessfulInserts ==
    /\ ret.op = "get_statistics"
    /\ features = {}
    /\ SuccessfulDrives = DOMAIN glog

\* C14 as stated: total_situations is the number of plays inserted and
\* situation_breakdown maps each canonical bucket to the number of inserted
\* plays that classify to it.
C14_Statistics_Original ==
    AfterSuccessfulInserts
    => /\ stats.total_situations = PlaysInserted
       /\ \A b \in SituationGroup :
             /\ <<b>> \in DOMAIN stats.situation_breakdown
             /\ stats.situation_breakdown[<<b>>] = PlaysIn(b)

\* C14 amended: total_situations is the number of plays inserted, and
\* situation_breakdown has an entry exactly for the canonical buckets that
\* received a play, each mapped to the number of plays that classify to it.
C14_Statistics ==
    AfterSuccessfulInserts
    => /\ stats.total_situations = PlaysInserted
       /\ DOMAIN stats.situation_breakdown = {<<b>> : b \in {c \in SituationGroup : PlaysIn(c) > 0}}
       /\ \A k \in DOMAIN stats.situation_breakdown :
             stats.situation_breakdown[k] = PlaysIn(k[1])

\* statistics asked for after the three-play drive of test_statistics
C14_Witness ==
    /\ AfterSuccessfulInserts
    /\ stats.total_situations = 3
    /\ Cardinality(DOMAIN stats.situation_breakdown) = 3
    /\ Cardinality(DOMAIN glog) = 1

(***************************************************************************)
(* Frame of predict                                                        *)
(***************************************************************************)
\* C16: a call of predict leaves the registry, every trie node, the
\* insertion-count map and the configuration as they were; only the fallback
\* counters may change.
C16_PredictReadOnly ==
    [][(ret.op = "none" /\ ret'.op = "predict")
       => /\ tries' = tries
          /\ situation_counts' = situation_counts
          /\ config' = config]_vars

\* a trained predictor asked about a bucket that was never trained, with a
\* symbol in the context: the call has been counted
C16_Witness ==
    /\ ret.op = "predict"
    /\ DOMAIN situation_counts # {}
    /\ <<BaseOf(ret.args.situation)>> \notin DOMAIN situation_counts
    /\ ret.args.recent_play_types # <<>>
    /\ DOMAIN fallback_stats # {}

(***************************************************************************)
(* Concurrent readers                                                      *)
(***************************************************************************)
AllReturned == rd # NoReaders /\ \A t \in DOMAIN rd : rd[t].pc = "returned"

\* the output the call of reader t gives when it runs alone
AloneOutput(t) ==
    PredictResult(tries, situation_counts, features, use_hierarchical_fallback,
                  min_examples_threshold, league_average, rd[t].args.situation,
                  rd[t].args.recent_play_types, <<>>, <<>>, <<>>, <<>>)

\* the fallback counters after the readers' calls made one after another, in
\* any order, on counters that were empty
SequentialStats ==
    LET levels == {rd[t].level : t \in DOMAIN rd}
    IN [l \in levels |-> Cardinality({t \in DOMAIN rd : rd[t].level = l})]

\* C17: once every concurrent call of predict on a trained predictor has returned, each has returned
\* what it returns when run alone, and the predictor is in the state that the
\* same calls made one after another leave it in.
C17_ConcurrentReaders ==
    (AllReturned /\ DOMAIN situation_counts # {})
    => /\ \A t \in DOMAIN rd :
             /\ rd[t].dist = AloneOutput(t).dist
             /\ rd[t].depth = AloneOutput(t).depth
       /\ fallback_stats = SequentialStats

(***************************************************************************)
(* Fallback counters                                                       *)
(***************************************************************************)
Levels == {"level_1_specific", "level_2_base", "level_3_league"}

\* calls of predict made so far: steps counts them and the plays of the drives
\* that passed the length checks
PredictCalls ==
    steps - SumDict([d \in DOMAIN glog |-> glog[d] * Len(d.play_types)])

\* a level of the fallback gives an output from the bucket for the context
SucceedsWith(key, recent_play_types) ==
    /\ key \in DOMAIN tries
    /\ GetOr0(situation_counts, key) >= min_examples_threshold
    /\ DOMAIN QueryGroup(tries, key, recent_play_types).dist # {}

\* the level that produces the output of predict called with args
LevelOf(args) ==
    IF SucceedsWith(GetSpecificSituationGroup(features, args.situation,
                        args.score_diff, args.team_pass_rate,
                        args.game_seconds_remaining, args.posteam_type),
                    args.recent_play_types)
    THEN "level_1_specific"
    ELSE IF SucceedsWith(<<BaseOf(args.situation)>>, args.recent_play_types)
    THEN "level_2_base"
    ELSE "level_3_league"

\* the level whose output the pending call of predict returned
ProducingLevel == LevelOf(ret.args)

\* what the pending call of predict returns when it is made again
Again ==
    PredictResult(tries, situation_counts, features, use_hierarchical_fallback,
                  min_examples_threshold, league_average, ret.args.situation,
                  ret.args.recent_play_types, ret.args.score_diff,
                  ret.args.team_pass_rate, ret.args.game_seconds_remaining,
                  ret.args.posteam_type)

PredictCalled == ret.op = "none" /\ ret'.op = "predict"

\* C18 as stated: every call of predict adds one to one counter, so the
\* counters sum to the number of calls of predict made.
C18_OneCounter_Original ==
    /\ DOMAIN fallback_stats \subseteq Levels
    /\ SumDict(fallback_stats) = PredictCalls

\* C18 amended: with hierarchical fallback enabled a call of predict adds
\* exactly one to the counter of the level that produced the returned output
\* (the first level that succeeds on the registry and counts the call found)
\* and leaves the other counters alone, so the counters of calls made one
\* after another sum to the number of calls; with fallback disabled a call
\* changes no counter and the counters stay empty; the call made again, with
\* the counters it changed, returns the same output.
C18_OneCounter ==
    /\ [](/\ DOMAIN fallback_stats \subseteq Levels
          /\ SumDict(fallback_stats)
                = (IF use_hierarchical_fallback THEN PredictCalls ELSE 0)
          /\ ret.op = "predict"
                => /\ Again.dist = ret.dist /\ Again.depth = ret.depth
                   /\ use_hierarchical_fallback
                         => fallback_stats[ProducingLevel] >= 1)
    /\ [][PredictCalled
          => IF use_hierarchical_fallback
             THEN \A l \in Levels :
                     GetOr0(fallback_stats', l)
                        = GetOr0(fallback_stats, l)
                             + (IF l = LevelOf(ret'.args) THEN 1 ELSE 0)
             ELSE fallback_stats' = fallback_stats]_vars

\* fallback enabled: a call answered by the canonical bucket after training,
\* counted once at that level and at no other
C18_Witness ==
    /\ use_hierarchical_fallback
    /\ ret.op = "predict"
    /\ PredictCalls = 1
    /\ ProducingLevel = "level_2_base"
    /\ SpecificKey # CanonicalKey
    /\ DOMAIN fallback_stats = {"level_2_base"}
    /\ fallback_stats["level_2_base"] = 1

(***************************************************************************)
(* evaluate_drives                                                         *)
(***************************************************************************)
\* the play at 0-based index i of drive d is one evaluate_drives counts
Countable(d, i) ==
    LET drive_plays == ev.drives[d]
        earlier == [j \in 1..i |->
                       CASE drive_plays[j] = "pass" -> "P"
                         [] drive_plays[j] = "run" -> "R"
                         [] OTHER -> "OTHER"]
    IN /\ Len(drive_plays) > ev.min_context
       /\ i >= ev.min_context
       /\ drive_plays[i + 1] \in {"pass", "run"}
       /\ DOMAIN PredictResult(tries, situation_counts, features,
                    use_hierarchical_fallback, min_examples_threshold,
                    league_average, EvalSituation(d), earlier,
                    <<>>, <<>>, <<>>, <<>>).dist # {}

\* the plays the loops have gone past
PlaysPassed ==
    {p \in (1..Len(ev.drives)) \X (0..(EvalLen + 1)) :
        /\ p[2] < Len(ev.drives[p[1]])
        /\ p[1] < ev.pos.d \/ (p[1] = ev.pos.d /\ p[2] < ev.pos.i)}

\* C19: total_predictions counts exactly the plays whose drive has more than
\* min_context plays, whose index is at least min_context, whose actual symbol
\* is not OTHER and for which predict, given all earlier plays of the drive,
\* returned a non-empty distribution; a pass of the loop over any other play
\* leaves every counter unchanged.
C19_TotalPredictions ==
    /\ [](ev.pc \in {"loop", "done"}
          => /\ ev.counters.total
                   = Cardinality({p \in PlaysPassed : Countable(p[1], p[2])})
             /\ ev.pc = "done" => ev.metrics.total_predictions = ev.counters.total)
    /\ [][(ev.pc = "loop" /\ ev'.pc = "loop" /\ ev'.pos # ev.pos)
          => IF Countable(ev.pos.d, ev.pos.i)
             THEN ev'.counters.total = ev.counters.total + 1
             ELSE ev'.counters = ev.counters]_vars

\* an evaluation that is over: a play was counted, a play at a counted index
\* was skipped for being OTHER and another for an empty distribution
C19_Witness ==
    /\ ev.pc = "done"
    /\ ev.metrics.total_predictions >= 1
    /\ \E d \in 1..Len(ev.drives) : \E i \in 0..(Len(ev.drives[d]) - 1) :
          /\ Len(ev.drives[d]) > ev.min_context /\ i >= ev.min_context
          /\ ev.drives[d][i + 1] = "punt"
    /\ \E d \in 1..Len(ev.drives) : \E i \in 0..(Len(ev.drives[d]) - 1) :
          /\ Len(ev.drives[d]) > ev.min_context /\ i >= ev.min_context
          /\ ev.drives[d][i + 1] # "punt"
          /\ ~Countable(d, i)

(***************************************************************************)
(* Predictions at depth 0                                                  *)
(***************************************************************************)
\* the part of the context predict walks: recent_plays[-max_depth:]
Retained == LastN(tret.play_types, trie.max_depth)

FirstRetainedUnseen == Retained # <<>> /\ <<Retained[1]>> \notin DOMAIN trie.nodes

\* C20: the root never accumulates visits, so predict returns the empty
\* distribution whenever depth_matched = 0: for every context on a trie
\* nothing was inserted into, and on a trained trie for the empty context and
\* for a context whose first retained symbol is unseen.
C20_EmptyAtDepthZero ==
    /\ trie.nodes[<<>>].total_visits = 0
    /\ trie.nodes[<<>>].next_play_counts = <<>>
    /\ tret.op = "predict"
          => /\ tret.depth_matched = 0 => tret.predictions = <<>>
             /\ (DOMAIN trie.nodes = {<<>>} \/ tret.play_types = <<>> \/ FirstRetainedUnseen)
                   => tret.depth_matched = 0 /\ tret.predictions = <<>>

\* a trained trie asked with a context whose first symbol is stored but not
\* retained, and whose first retained symbol is unseen
C20_Witness ==
    /\ tret.op = "predict"
    /\ DOMAIN trie.nodes # {<<>>}
    /\ Len(tret.play_types) > trie.max_depth
    /\ <<tret.play_types[1]>> \in DOMAIN trie.nodes
    /\ FirstRetainedUnseen
    /\ tret.depth_matched = 0
    /\ tret.predictions = <<>>

(***************************************************************************)
(* The window of PlaySequenceTrie.predict                                  *)
(***************************************************************************)
\* contexts that end with the same last max_depth symbols as the one given
SameWindow ==
    {c \in SeqsUpTo(TrieSymbols, TrieCtx + 1) :
        LastN(c, trie.max_depth) = Retained}

\* the prefixes of the retained window that are stored paths
StoredPrefixLengths == {j \in 0..Len(Retained) : StoredPath(SubSeq(Retained, 1, j))}

\* C21: predict uses only the last max_depth symbols of the context, walked
\* oldest first up to the first missing child link: depth_matched is the
\* length of the longest prefix of that window that is a stored path (every
\* shorter prefix is stored, the next longer one is not), it is at most
\* min(max_depth, len(context)), and every context with the same window gets
\* the same predictions and the same depth_matched.
C21_WindowOnly ==
    tret.op = "predict"
    => /\ tret.depth_matched \in StoredPrefixLengths
       /\ \A j \in StoredPrefixLengths : j <= tret.depth_matched
       /\ \A j \in 0..tret.depth_matched : j \in StoredPrefixLengths
       /\ tret.depth_matched < Len(Retained)
             => ~StoredPath(SubSeq(Retained, 1, tret.depth_matched + 1))
       /\ tret.depth_matched <= Min2(trie.max_depth, Len(tret.play_types))
       /\ \A c \in SameWindow :
             LET r == TriePredict(trie, c, tret.k)
             IN /\ r.predictions = tret.predictions
                /\ r.depth_matched = tret.depth_matched

\* a context longer than max_depth whose oldest symbol is stored but outside
\* the window; the walk of the window stopped at a missing link after one
\* symbol
C21_Witness ==
    /\ tret.op = "predict"
    /\ Len(tret.play_types) > trie.max_depth
    /\ trie.max_depth >= 2
    /\ tret.depth_matched = 1
    /\ tret.predictions # <<>>
    /\ StoredPath(SubSeq(tret.play_types, 1, 2))
    /\ tret.play_types[1] # Retained[1]

(***************************************************************************)
(* Top-k selection                                                         *)
(***************************************************************************)
\* the next-symbol counts of the node the prediction was taken from, in the
\* order in which the symbols were first recorded
MatchedCounts == trie.nodes[LongestStoredPrefix(Retained)].next_play_counts

\* position of a symbol in the order of first recording
Recorded(play) == CHOOSE j \in 1..Len(MatchedCounts) : MatchedCounts[j].play = play

\* symbol a ranks before symbol b: a higher count, or the same count and
\* recorded earlier
RanksBefore(a, b) ==
    \/ CountOf(MatchedCounts, a) > CountOf(MatchedCounts, b)
    \/ /\ CountOf(MatchedCounts, a) = CountOf(MatchedCounts, b)
       /\ Recorded(a) < Recorded(b)

ReturnedPlays == {tret.predictions[j].play : j \in 1..Len(tret.predictions)}

\* C22: predict with parameter k returns min(k, number of distinct recorded
\* next symbols of the matched node) entries; they are the symbols of the
\* highest counts, in descending order of count, equal counts in the order of
\* first recording, also across the cut at k; each probability is the count
\* over the node's visits, and the same query on the same trie gives the same
\* entries in the same order.
C22_TopK ==
    tret.op = "predict"
    => /\ Len(tret.predictions) = Min2(tret.k, Len(MatchedCounts))
       /\ \A j \in 1..Len(tret.predictions) :
             /\ CountOf(MatchedCounts, tret.predictions[j].play) >= 1
             /\ tret.predictions[j].prob
                   = Rat(CountOf(MatchedCounts, tret.predictions[j].play),
                         trie.nodes[LongestStoredPrefix(Retained)].total_visits)
       /\ \A j, m \in 1..Len(tret.predictions) :
             j < m => RanksBefore(tret.predictions[j].play, tret.predictions[m].play)
       /\ \A e \in 1..Len(MatchedCounts) :
             MatchedCounts[e].play \notin ReturnedPlays
                => \A p \in ReturnedPlays : RanksBefore(p, MatchedCounts[e].play)
       /\ TriePredict(trie, tret.play_types, tret.k).predictions = tret.predictions

\* k = 1 at a node with two next symbols of the same count: the one recorded
\* first is returned, and it is not the first in alphabetical order
C22_Witness ==
    /\ tret.op = "predict" /\ tret.k = 1
    /\ Len(MatchedCounts) >= 2
    /\ Len(tret.predictions) = 1
    /\ tret.predictions[1].play = "C"
    /\ \E e \in 1..Len(MatchedCounts) :
          /\ MatchedCounts[e].play = "A"
          /\ MatchedCounts[e].count = CountOf(MatchedCounts, "C")

(***************************************************************************)
(* Frame of insert_drive                                                   *)
(***************************************************************************)
InsertDriveCalled == ret.op = "none" /\ ret'.op = "insert_drive"

\* the bucket keys insert_drive computes for the plays of a drive: the key of
\* each play and, with a feature configured and the fallback enabled, the
\* canonical bucket of each play
KeysOf(args) ==
    LET n == Min2(Len(args.play_types), Len(args.situations))
    IN {InsertGroup(features, args.situations, args.score_diffs,
                    args.team_pass_rates, args.game_seconds_remaining,
                    args.posteam_types, i).key : i \in 1..n}
       \cup (IF features # {} /\ use_hierarchical_fallback
             THEN {<<BaseOf(args.situations[i])>> : i \in 1..n} ELSE {})

\* what a bucket's trie answers to a context, and whether the bucket counts
\* as reliable
BucketView(trs, counts, key, context) ==
    [answer |-> IF key \in DOMAIN trs THEN <<QueryGroup(trs, key, context)>> ELSE <<>>,
     reliable |-> HasSufficientData(counts, min_examples_threshold, key)]

\* C23: a call of insert_drive changes the trie and the insertion count of
\* no bucket other than the keys computed for its own plays (with a feature
\* configured and the fallback enabled: and their canonical buckets): every
\* other key keeps its trie and its count, none is added or removed, and a
\* prediction for such a bucket is answered as before the call.
C23_SituationIsolation ==
    [][InsertDriveCalled
       => \A k \in (DOMAIN tries \cup DOMAIN tries' \cup DOMAIN situation_counts
                       \cup DOMAIN situation_counts') \ KeysOf(ret'.args) :
             /\ k \in DOMAIN tries' <=> k \in DOMAIN tries
             /\ k \in DOMAIN tries => tries'[k] = tries[k]
             /\ k \in DOMAIN situation_counts' <=> k \in DOMAIN situation_counts
             /\ k \in DOMAIN situation_counts
                   => situation_counts'[k] = situation_counts[k]
             /\ \A c \in SeqsUpTo(Symbols, 1) :
                   BucketView(tries', situation_counts', k, c)
                      = BucketView(tries, situation_counts, k, c)]_vars

\* a drive was inserted into one bucket while another bucket, trained before,
\* holds plays
C23_Witness ==
    /\ ret.op = "insert_drive" /\ ret.raised = ""
    /\ Len(ret.args.play_types) >= 1
    /\ \E k \in DOMAIN situation_counts :
          /\ k \notin KeysOf(ret.args)
          /\ situation_counts[k] >= 1
          /\ Cardinality(DOMAIN tries[k].nodes) > 1
    /\ \E k \in KeysOf(ret.args) : GetOr0(situation_counts, k) >= 1

(***************************************************************************)
(* Growth of the registry                                                  *)
(***************************************************************************)
\* trie b stores every node of trie a with counts at least as large
TrieGrown(a, b) ==
    /\ b.max_depth = a.max_depth
    /\ b.total_sequences >= a.total_sequences
    /\ \A p \in DOMAIN a.nodes : NodeCovers(b, a, p)

\* registry and count map keep every key, and no count or node shrinks
NothingShrinks ==
    /\ \A k \in DOMAIN tries :
          k \in DOMAIN tries' /\ TrieGrown(tries[k], tries'[k])
    /\ \A k \in DOMAIN situation_counts :
          /\ k \in DOMAIN situation_counts'
          /\ situation_counts'[k] >= situation_counts[k]
    /\ \A k \in DOMAIN tries :
          HasSufficientData(situation_counts, min_examples_threshold, k)
             => HasSufficientData(situation_counts', min_examples_threshold, k)

\* the queries looked at: a situation, a context, auxiliary values
Queries ==
    [situation : {ScenarioSituation(i) : i \in 1..4} \cup SituationsFor(features),
     recent : SeqsUpTo(Symbols, MaxCtx), score : ScoreQueries(features),
     team : TeamValues(features), seconds : SecondsValues(features),
     home : HomeValues(features)]

KeyOfQuery(q) ==
    GetSpecificSituationGroup(features, q.situation, q.score, q.team, q.seconds, q.home)

\* the level a query is answered at on registry trs and count map counts
LevelOn(trs, counts, q) ==
    PredictResult(trs, counts, features, use_hierarchical_fallback,
                  min_examples_threshold, league_average, q.situation, q.recent,
                  q.score, q.team, q.seconds, q.home).level

\* C24 as stated: counts and nodes never shrink and nothing is removed; a
\* bucket that reached the threshold stays reliable; and a query answered at
\* the specific level is answered at the specific level after every further
\* call.
C24_Monotone_Original ==
    [][/\ NothingShrinks
       /\ \A q \in Queries :
             LevelOn(tries, situation_counts, q) = "level_1_specific"
                => LevelOn(tries', situation_counts', q) = "level_1_specific"]_vars

\* C24 amended: counts and nodes never shrink and nothing is removed; a
\* bucket that reached the threshold stays reliable; the depth a bucket's trie
\* matches for a context never decreases; and a query answered at the
\* specific level is answered at the specific level after a further call
\* unless that call stored a longer prefix of the query's window in the
\* specific bucket's trie (the new, deeper node may have no recorded next
\* symbol, and the query then falls back).
C24_Monotone ==
    [][/\ NothingShrinks
       /\ \A k \in DOMAIN tries : \A c \in SeqsUpTo(Symbols, MaxCtx) :
             QueryGroup(tries', k, c).depth >= QueryGroup(tries, k, c).depth
       /\ \A q \in Queries :
             (/\ LevelOn(tries, situation_counts, q) = "level_1_specific"
              /\ QueryGroup(tries', KeyOfQuery(q), q.recent).depth
                    = QueryGroup(tries, KeyOfQuery(q), q.recent).depth)
             => LevelOn(tries', situation_counts', q) = "level_1_specific"]_vars

\* after the drives (P, R) and then (P, P), the context (P, P) at the
\* situation of their second play matches the node of (P, P), which has no
\* recorded next symbol: the reliable bucket answers nothing and the query
\* gets the global prior, where after the first drive alone it was answered
\* from the node of (P) at the specific level
C24_Witness ==
    /\ use_hierarchical_fallback /\ min_examples_threshold = 1
    /\ ret.op = "insert_drive" /\ ret.args.play_types = <<"P", "P">>
    /\ {d.play_types : d \in DOMAIN glog} = {<<"P", "R">>, <<"P", "P">>}
    /\ \A d \in DOMAIN glog : glog[d] = 1
    /\ LET k == <<BaseOf(ScenarioSituation(2))>>
       IN /\ situation_counts[k] = 2
          /\ QueryGroup(tries, k, <<"P", "P">>).depth = 2
          /\ QueryGroup(tries, k, <<"P", "P">>).dist = EmptyDict
          /\ CountOf(tries[k].nodes[<<"P">>].next_play_counts, "R") = 1
          /\ PredictResult(tries, situation_counts, features, TRUE, 1,
                           league_average, ScenarioSituation(2), <<"P", "P">>,
                           <<>>, <<>>, <<>>, <<>>).level = "level_3_league"

(***************************************************************************)
(* Non-empty output under fallback                                         *)
(***************************************************************************)
\* a bucket is consulted and answers nothing: its trie exists and its count
\* reaches the threshold, but the matched node has no next symbol
AnswersNothing(key) ==
    /\ key \in DOMAIN tries
    /\ GetOr0(situation_counts, key) >= min_examples_threshold
    /\ DOMAIN Answer(key).dist = {}

\* C25: with hierarchical fallback enabled predict never returns an empty
\* distribution: every returned probability is positive, and when neither
\* bucket gives an output (no trie, too few insertions, or an empty answer
\* of the trie) the result is the global prior with depth_matched = 0.
C25_NeverEmpty ==
    (ret.op = "predict" /\ use_hierarchical_fallback)
    => /\ DOMAIN ret.dist # {}
       /\ \A c \in DOMAIN ret.dist : RPos(ret.dist[c])
       /\ RPos(SumValues(ret.dist))
       /\ (DOMAIN situation_counts = {} \/ AnswersNothing(SpecificKey))
             => (ret.level # "level_1_specific")
       /\ ret.level = "level_3_league"
             => /\ ret.dist = league_average /\ ret.depth = 0
                /\ DOMAIN league_average # {}
       /\ ret.level # "level_3_league"
             => DOMAIN Answer(SourceKey).dist # {} /\ Returned(Answer(SourceKey))

\* a reliable bucket whose trie matches the whole one-symbol context at a
\* node without next symbol: the global prior is returned at depth 0
C25_Witness ==
    /\ ret.op = "predict" /\ use_hierarchical_fallback
    /\ ret.args.recent_play_types # <<>>
    /\ AnswersNothing(SpecificKey)
    /\ Answer(SpecificKey).depth >= 1
    /\ ret.level = "level_3_league"
    /\ ret.dist = league_average /\ ret.depth = 0

(***************************************************************************)
(* Bucket purity                                                           *)
(***************************************************************************)
\* symbol x was played, in a drive given to insert_drive, in a situation that
\* classifies to the canonical bucket of key k
PlayedIn(k, x) ==
    \E d \in DOMAIN glog : \E i \in 1..Len(d.play_types) :
        d.play_types[i] = x /\ BaseOf(d.situations[i]) = k[1]

\* the next symbols recorded in the trie of bucket k
NextSymbolsOf(k) ==
    UNION {{tries[k].nodes[p].next_play_counts[j].play :
               j \in 1..Len(tries[k].nodes[p].next_play_counts)} :
           p \in DOMAIN tries[k].nodes}

\* C26 (as stated): every next-symbol count in the trie of bucket B was
\* produced by a play whose own situation classifies to B, so a prediction
\* answered from B's trie gives positive probability only to symbols that
\* were played, in training, in a situation of B.
C26_BucketPurity ==
    /\ \A k \in DOMAIN tries : \A x \in NextSymbolsOf(k) : PlayedIn(k, x)
    /\ (ret.op = "predict" /\ ret.level # "level_3_league"
           /\ SpecificKey \in DOMAIN tries)
       => \A c \in DOMAIN ret.dist : \E x \in Symbols : Code(x) = c /\ PlayedIn(SourceKey, x)

(***************************************************************************)
(* Counts of the canonical buckets                                         *)
(***************************************************************************)
\* C27 (as stated): with a feature configured and the hierarchical fallback
\* enabled, after drives that insert_drive went through, the insertion count
\* of each canonical bucket, and the sequence counter of its trie, is the
\* number of inserted plays whose situation classifies to it, whether or not
\* the auxiliary lists were supplied and whatever features are configured.
C27_CanonicalCountedOnce ==
    (features # {} /\ use_hierarchical_fallback /\ SuccessfulDrives = DOMAIN glog)
    => \A b \in SituationGroup :
          /\ GetOr0(situation_counts, <<b>>) = PlaysIn(b)
          /\ <<b>> \in DOMAIN tries => tries[<<b>>].total_sequences = PlaysIn(b)
          /\ PlaysIn(b) > 0 => <<b>> \in DOMAIN tries

(***************************************************************************)
(* Rejected drives                                                         *)
(***************************************************************************)
\* C28: a call of insert_drive that raises the length-mismatch validation
\* error leaves the predictor as it was: no trie is created or changed, no
\* insertion count changes, and no play of the drive has been inserted.
C28_RejectedUnchanged ==
    [][(InsertDriveCalled /\ ret'.raised = "ValueError")
       => /\ tries' = tries
          /\ situation_counts' = situation_counts
          /\ fallback_stats' = fallback_stats
          /\ config' = config
          /\ glog' = glog]_vars

\* a trained predictor with a feature configured has rejected a one-play
\* drive whose list for that feature is too long; the play's bucket has no
\* trie
C28_Witness ==
    /\ ret.op = "insert_drive" /\ ret.raised = "ValueError"
    /\ Len(ret.args.play_types) = 1
    /\ Len(ret.args.situations) = 1
    /\ features # {}
    /\ DOMAIN situation_counts # {}
    /\ \E i \in {1} :
          LET g == InsertGroup(features, ret.args.situations, ret.args.score_diffs,
                               ret.args.team_pass_rates,
                               ret.args.game_seconds_remaining,
                               ret.args.posteam_types, i)
          IN g.raised = "" /\ g.key \notin DOMAIN tries

(***************************************************************************)
(* The bucket key in insert_drive and in predict                           *)
(***************************************************************************)
\* the auxiliary value of the play at index i: the entry of the list, absent
\* when the list is not supplied
ValueAt(l, i) == IF l.given THEN l.list[i] ELSE <<>>

\* the key predict computes for the situation and auxiliary values of the
\* play at index i of the drive just given to insert_drive
PredictKeyAt(i) ==
    GetSpecificSituationGroup(features, ret.args.situations[i],
                              ValueAt(ret.args.score_diffs, i),
                              ValueAt(ret.args.team_pass_rates, i),
                              ValueAt(ret.args.game_seconds_remaining, i),
                              ValueAt(ret.args.posteam_types, i))

\* what insert_drive computes for the play at index i: [raised, key]
InsertKeyAt(i) ==
    InsertGroup(features, ret.args.situations, ret.args.score_diffs,
                ret.args.team_pass_rates, ret.args.game_seconds_remaining,
                ret.args.posteam_types, i)

\* C29 (as stated): for every play of a drive that passed the length checks,
\* insert_drive computes a bucket key, and it is the key predict computes for
\* the same situation and the same present and absent auxiliary values.
C29_SameKey ==
    (ret.op = "insert_drive" /\ ret.raised # "ValueError")
    => \A i \in 1..Len(ret.args.play_types) :
          /\ InsertKeyAt(i).raised = ""
          /\ InsertKeyAt(i).key = PredictKeyAt(i)

\* the keys agree for every play for which insert_drive computes one
KeysAgreeWhereComputed ==
    (ret.op = "insert_drive" /\ ret.raised # "ValueError")
    => \A i \in 1..Len(ret.args.play_types) :
          InsertKeyAt(i).raised = "" => InsertKeyAt(i).key = PredictKeyAt(i)

(***************************************************************************)
(* Shape of the stand-alone trie                                           *)
(***************************************************************************)
RECURSIVE SumOfCounts(_)
SumOfCounts(items) ==
    IF items = <<>> THEN 0 ELSE Head(items).count + SumOfCounts(Tail(items))

\* C30: after any calls of insert_sequence the root has no visits and no
\* next-symbol counts; no node lies deeper than max_depth; every other node
\* has at least one visit and next-symbol counts that sum to at most its
\* visits; and a node above max_depth has a child under a symbol exactly
\* when its count for that symbol is positive, the child's visits being that
\* count.
C30_TrieShape ==
    /\ trie.nodes[<<>>].total_visits = 0
    /\ trie.nodes[<<>>].next_play_counts = <<>>
    /\ \A p \in DOMAIN trie.nodes :
          /\ Len(p) <= trie.max_depth
          /\ p # <<>> =>
                /\ SubSeq(p, 1, Len(p) - 1) \in DOMAIN trie.nodes
                /\ trie.nodes[p].total_visits >= 1
                /\ SumOfCounts(trie.nodes[p].next_play_counts)
                      <= trie.nodes[p].total_visits
                /\ \A j \in 1..Len(trie.nodes[p].next_play_counts) :
                      trie.nodes[p].next_play_counts[j].count >= 1
          /\ (p # <<>> /\ Len(p) < trie.max_depth) =>
                \A s \in TrieSymbols :
                   /\ Append(p, s) \in DOMAIN trie.nodes
                         <=> CountOf(trie.nodes[p].next_play_counts, s) > 0
                   /\ Append(p, s) \in DOMAIN trie.nodes
                         => trie.nodes[Append(p, s)].total_visits
                               = CountOf(trie.nodes[p].next_play_counts, s)

\* a trie of depth 2 after more than one insertion: a node above max_depth
\* with both children, a node at max_depth that counts a next symbol and has
\* no child, and a node visited more often than it was followed
C30_Witness ==
    /\ trie.max_depth = 2
    /\ trie.total_sequences >= 2
    /\ \E p \in DOMAIN trie.nodes :
          Len(p) = 1 /\ \A s \in TrieSymbols : Append(p, s) \in DOMAIN trie.nodes
    /\ \E p \in DOMAIN trie.nodes :
          Len(p) = 2 /\ trie.nodes[p].next_play_counts # <<>>
    /\ \E p \in DOMAIN trie.nodes :
          /\ trie.nodes[p].next_play_counts # <<>>
          /\ SumOfCounts(trie.nodes[p].next_play_counts) < trie.nodes[p].total_visits

====
